---- MODULE Spec2Model ----
(***************************************************************************)
(* Dispatch-and-instrumentation core of chtc-go-logger.                    *)
(*                                                                         *)
(* Handler instances (the stats collector LogStatsHandler /                *)
(* logDispatchStatHandler, the fan-out LogDispatcher and the older         *)
(* TeeHandler) hold an ordered list of sinks.  Every operation of the      *)
(* slog.Handler contract is one action; what an operation did (the sinks   *)
(* it drove, in order, the LogStats it built, the callback it invoked, the *)
(* value it returned) is recorded in obs, the observation of the most      *)
(* recent operation.                                                       *)
(***************************************************************************)
EXTENDS Integers, Sequences, FiniteSets, Bags, TLC

VARIABLES
    objs,        \* the handler instances created so far, in creation order
    registered,  \* history: per instance, the callbacks registered on it, oldest first
    produced,    \* history: per instance, the LogStats its Handle calls built, the
                 \* latest and the one before, and the number of calls
    obs,         \* observation of the most recent operation
    steps,       \* number of operations performed so far
    goroutines,  \* concurrent callers of one collector: the operation each runs,
                 \* its position in it and its local values
    built,       \* history: the LogStats built by the concurrent Handle calls
    lastHealthCheck,  \* the shared snapshot: the atomic pointer, 0 while nil
    statuses,    \* the lastHealthCheckStatus structs allocated so far
    published,   \* history: the snapshots published, oldest first
    loops,       \* the goroutines of the health monitor: a bag of their states
    cancelled,   \* the monitor's context is done
    now,         \* the clock
    starts,      \* number of StartHealthCheckMonitor calls made
    call,        \* the log call in progress on the collector next to the monitor
    forwarders,  \* the SyslogHandler instances, the constructed one first
    buf,         \* the render buffer the forwarders share
    mu,          \* the mutex the forwarders share: its holder, 0 while free
    handling,    \* the concurrent Handle calls on the forwarders
    writer,      \* history: the messages handed to the syslog writer, in order
    sequenceNo,  \* the counter of the sequence tagger
    logging,     \* the concurrent log calls through the sequence tagger
    emitted,     \* history: the records that reached the sink of the tagger
    construction,  \* the construction of a logger: the config it was given and
                   \* how it ended, with the logger or the error returned
    destinations,  \* history: per destination, the number of records written to it
    errorLoggerMu, \* ContextAwareErrorLogger.mu: its holder, 0 while free
    clock,       \* the monotonic clock time.Now and time.Since read
    timed,       \* the Handle call whose duration is followed: its position,
                 \* its start time and the time its sinks and its query took
    overriding,  \* a config, the overrides applied to it, the config as it
                 \* was before and the number of applications made
    polling,     \* pollForLogErrors: its position, the errors sent on errChan,
                 \* the handlers registered and, as history, their invocations
    written,     \* history: the sink writes of serialized log calls, in order
    global       \* the package variable log, and the LogInit and GetLogger
                 \* calls made on it

\* the state of the handler operations called one after the other
coreVars == <<objs, registered, produced, obs, steps>>

\* the state of callers running concurrently on one collector
concVars == <<goroutines, built>>

\* the state of the health monitor and of the log call made next to it
monVars == <<lastHealthCheck, statuses, published, loops, cancelled, now, starts, call>>

\* the state of the syslog forwarders and of their callers
sysVars == <<forwarders, buf, mu, handling, writer>>

\* the state of the sequence tagger and of its callers
seqVars == <<sequenceNo, logging, emitted>>

vars == <<objs, registered, produced, obs, steps, goroutines, built,
          lastHealthCheck, statuses, published, loops, cancelled, now, starts, call,
          forwarders, buf, mu, handling, writer, sequenceNo, logging, emitted,
          construction, destinations, errorLoggerMu, clock, timed,
          overriding, polling, written, global>>

\* the state of a logger's construction and of its destinations
buildVars == <<construction, destinations>>

\* the state of the timed Handle call
timeVars == <<clock, timed>>

\* the state of the specifications written last
lateVars == <<timeVars, overriding, polling, written, global>>

\* what the operations called one after the other leave alone
nonCoreVars == <<concVars, monVars, sysVars, seqVars, buildVars, errorLoggerMu, lateVars>>

\* what the concurrent callers of a collector leave alone
nonConcVars == <<monVars, sysVars, seqVars, buildVars, errorLoggerMu, lateVars>>

\* what the health monitor leaves alone
nonMonVars == <<concVars, sysVars, seqVars, buildVars, errorLoggerMu, lateVars>>

\* what the syslog forwarders leave alone
nonSysVars == <<coreVars, concVars, monVars, seqVars, buildVars, errorLoggerMu, lateVars>>

\* what the sequence tagger leaves alone
nonSeqVars == <<coreVars, concVars, monVars, sysVars, buildVars, errorLoggerMu, lateVars>>

\* what the construction of a logger and the calls on it leave alone
nonBuildVars == <<coreVars, concVars, monVars, sysVars, seqVars, errorLoggerMu, lateVars>>

----------------------------------------------------------------------------
(* Bounds *)

\* handler instances (the constructed one plus those derived by WithAttrs/WithGroup)
MaxObjs == 2

\* operations performed in one run
MaxSteps == 3

----------------------------------------------------------------------------
(* Values *)

HandlerConsole == "HandlerConsole"
HandlerFile == "HandlerFile"
HandlerSyslog == "HandlerSyslog"

Levels == {"DEBUG", "INFO"}

\* slog.Level values
LevelRank == [l \in {"DEBUG", "INFO", "WARN", "ERROR"} |->
                CASE l = "DEBUG" -> -4
                  [] l = "INFO" -> 0
                  [] l = "WARN" -> 4
                  [] l = "ERROR" -> 8]

\* the record of a log call
Records == [Level : {"INFO"}, Message : {"Test msg"}]

\* the argument of WithAttrs / WithGroup
ScopeArgs == {"k=v"}

\* callbacks the application may register; NoCallback is the nil func
NoCallback == "nil"
Callbacks == {"f", "g"}

\* free space a successful statfs may report
DiskSizes == {1}

NilErr == [what |-> "nil", sink |-> 0]
WriteErr(i) == [what |-> "write", sink |-> i]
StatfsErr == [what |-> "statfs", sink |-> 0]

\* a sink: the slog.Handler behind a NamedHandler and its HandlerType tag
Sink(kind, impl) == [kind |-> kind, impl |-> impl, scope |-> <<>>]

\* the zero NamedHandler (nil Handler, empty HandlerType)
NoHandler == [kind |-> "", impl |-> "", scope |-> <<>>]

\* the zero lastHealthCheckStatus / HealthCheckStatus: zero time, nil error
ZeroHealthCheck == [Timestamp |-> 0, Err |-> NilErr]

\* what lastHealthCheck.Load() returns before any Store: the nil pointer
NilStatus == [nil |-> TRUE]

\* the zero LogStats
ZeroStats == [DiskAvail |-> 0, Errors |-> <<>>, HealthCheck |-> ZeroHealthCheck]

LogError(err, rec, handler) == [Err |-> err, Record |-> rec, Handler |-> handler]

----------------------------------------------------------------------------
(* Sinks *)

\* Enabled of one sink: ColorConsoleHandler accepts every level, the slog
\* text/JSON handlers (built with nil options) accept Info and above; the
\* syslog forwarder asks its delegate
SinkEnabled(s, level) ==
    IF s.impl = "color" THEN TRUE ELSE LevelRank[level] >= LevelRank["INFO"]

\* WithAttrs / WithGroup of one sink: ColorConsoleHandler returns itself, the
\* slog handlers (and the syslog forwarder's delegate) return a copy that
\* carries the added attributes / group
SinkWith(s, op) ==
    IF s.impl = "color" THEN s ELSE [s EXCEPT !.scope = Append(@, op)]

\* Handle of one sink: what reaches the destination, and the error returned
SinkHandle(s, i, rec, failing) ==
    [e |-> "sink", idx |-> i, kind |-> s.kind, rec |-> rec, scope |-> s.scope,
     err |-> IF i \in failing THEN WriteErr(i) ELSE NilErr]

\* errors.Join: nil values are discarded; nil when nothing is left
Join(errs) ==
    LET nn == SelectSeq(errs, LAMBDA e : e # NilErr)
    IN  IF nn = <<>> THEN NilErr ELSE [what |-> "join", sink |-> 0, errs |-> nn]

----------------------------------------------------------------------------
(* Construction *)

Configs == [console : {"off", "text", "color"}, file : BOOLEAN, syslog : BOOLEAN]

\* createLogger: console, file, syslog in that order, and the fallback text
\* console handler (tagged HandlerSyslog) when nothing is enabled
createLogger(cfg) ==
    LET console == IF cfg.console = "off" THEN <<>>
                   ELSE IF cfg.console = "color"
                        THEN <<Sink(HandlerConsole, "color")>>
                        ELSE <<Sink(HandlerConsole, "slog")>>
        file == IF cfg.file THEN <<Sink(HandlerFile, "slog")>> ELSE <<>>
        syslog == IF cfg.syslog THEN <<Sink(HandlerSyslog, "syslog")>> ELSE <<>>
        handlers == console \o file \o syslog
    IN  IF Len(handlers) = 0 THEN <<Sink(HandlerSyslog, "slog")>> ELSE handlers

\* NewConsoleFileTeeHandler: a text console handler and a JSON file handler
NewConsoleFileTeeHandler == <<Sink(HandlerConsole, "slog"), Sink(HandlerFile, "slog")>>

\* NewLogStatsHandler: the handlers and the config as given, no latest stats,
\* no callback
NewLogStatsHandler(fileEnabled, handlers) ==
    [type |-> "LogStatsHandler", handlers |-> handlers, fileEnabled |-> fileEnabled,
     latestStats |-> ZeroStats, statsCallback |-> NoCallback]

\* &LogDispatcher{handlers: handlers}
LogDispatcher(handlers) ==
    [type |-> "LogDispatcher", handlers |-> handlers, fileEnabled |-> FALSE,
     latestStats |-> ZeroStats, statsCallback |-> NoCallback]

\* &TeeHandler{handlers: handlers}
TeeHandler(handlers) ==
    [type |-> "TeeHandler", handlers |-> handlers, fileEnabled |-> FALSE,
     latestStats |-> ZeroStats, statsCallback |-> NoCallback]

\* the instances a program can construct: through createLogger, or directly
\* with an empty handler list
Constructed ==
    {NewLogStatsHandler(cfg.file, createLogger(cfg)) : cfg \in Configs}
    \cup {NewLogStatsHandler(f, <<>>) : f \in BOOLEAN}
    \cup {LogDispatcher(createLogger(cfg)) : cfg \in Configs}
    \cup {LogDispatcher(<<>>)}
    \cup {TeeHandler(NewConsoleFileTeeHandler)}

NoObs == [op |-> "none"]

NoneProduced == [stats |-> ZeroStats, prev |-> ZeroStats, calls |-> 0]

\* no caller runs concurrently
ConcIdle ==
    /\ goroutines = <<>>
    /\ built = {}

NoCall == [pc |-> "idle"]

\* the health monitor was never started
MonIdle ==
    /\ lastHealthCheck = 0
    /\ statuses = <<>>
    /\ published = <<>>
    /\ loops = EmptyBag
    /\ cancelled = FALSE
    /\ now = 1
    /\ starts = 0
    /\ call = NoCall

\* no syslog forwarder was constructed
SysIdle ==
    /\ forwarders = <<>>
    /\ buf = <<>>
    /\ mu = 0
    /\ handling = <<>>
    /\ writer = <<>>

\* nothing was logged through the sequence tagger
SeqIdle ==
    /\ sequenceNo = 0
    /\ logging = <<>>
    /\ emitted = <<>>

\* the nil *slog.Logger
NoLogger == [type |-> "nil", handlers |-> <<>>, fileEnabled |-> FALSE]

\* no logger was constructed through the package functions
NotConstructed == [pc |-> "none", logger |-> NoLogger]

\* nothing was written anywhere
NoWrites == [d \in {"stdout", "file", "syslog"} |-> 0]

\* no Handle call is timed
NotTimed == [pc |-> "idle"]

\* no config is being overridden
NoOverriding == [applied |-> 0]

\* no Handle call is timed
TimeIdle ==
    /\ clock = 0
    /\ timed = NotTimed

\* pollForLogErrors is not running
NotPolling == [pc |-> "none"]

\* LogInit was never called
NoGlobal ==
    [log |-> NoLogger, last |-> "none", failedOver |-> NoLogger, calls |-> 0,
     monitors |-> 0, monitorsBefore |-> 0,
     got |-> [made |-> FALSE, panicked |-> FALSE, logger |-> NoLogger]]

\* no error poller, no serialized calls, no global logger
LaterIdle ==
    /\ polling = NotPolling
    /\ written = <<>>
    /\ global = NoGlobal

\* nothing of the specifications written last is in use
LateIdle ==
    /\ TimeIdle
    /\ overriding = NoOverriding
    /\ LaterIdle

\* no construction is followed, and no ContextAwareErrorLogger is in use
BuildIdle ==
    /\ construction = NotConstructed
    /\ destinations = NoWrites
    /\ errorLoggerMu = 0
    /\ LateIdle

Init ==
    /\ \E o \in Constructed : objs = <<o>>
    /\ registered = << <<>> >>
    /\ produced = <<NoneProduced>>
    /\ obs = NoObs
    /\ steps = 0
    /\ ConcIdle
    /\ MonIdle
    /\ SysIdle
    /\ SeqIdle
    /\ BuildIdle

----------------------------------------------------------------------------
(* Handle *)

\* a loop that stops at the first sink that fails
RECURSIVE SinkLoopShortCircuit(_, _, _, _, _)
SinkLoopShortCircuit(handlers, rec, failing, i, acc) ==
    IF i > Len(handlers) THEN acc
    ELSE LET ev == SinkHandle(handlers[i], i, rec, failing)
         IN  IF ev.err # NilErr
             THEN [events |-> Append(acc.events, ev),
                   errs |-> Append(acc.errs, LogError(ev.err, rec, handlers[i]))]
             ELSE SinkLoopShortCircuit(handlers, rec, failing, i + 1,
                     [events |-> Append(acc.events, ev), errs |-> acc.errs])

\* the loop of a collector that attributes every sink error to the first sink
RECURSIVE SinkLoopFirstHandler(_, _, _, _, _)
SinkLoopFirstHandler(handlers, rec, failing, i, acc) ==
    IF i > Len(handlers) THEN acc
    ELSE LET ev == SinkHandle(handlers[i], i, rec, failing)
         IN  SinkLoopFirstHandler(handlers, rec, failing, i + 1,
                [events |-> Append(acc.events, ev),
                 errs |-> IF ev.err # NilErr
                          THEN Append(acc.errs, LogError(ev.err, rec, handlers[1]))
                          ELSE acc.errs])


\* the loop of a collector that drives its sinks from the last to the first
RECURSIVE SinkLoopReversed(_, _, _, _, _)
SinkLoopReversed(handlers, rec, failing, i, acc) ==
    IF i > Len(handlers) THEN acc
    ELSE LET j == Len(handlers) + 1 - i
             ev == SinkHandle(handlers[j], j, rec, failing)
         IN  SinkLoopReversed(handlers, rec, failing, i + 1,
                [events |-> Append(acc.events, ev),
                 errs |-> IF ev.err # NilErr
                          THEN Append(acc.errs, LogError(ev.err, rec, handlers[j]))
                          ELSE acc.errs])

\* the loop over the sinks of LogStatsHandler.Handle / LogDispatcher.Handle:
\* every sink is driven, a non-nil error is appended
RECURSIVE SinkLoop(_, _, _, _, _)
SinkLoop(handlers, rec, failing, i, acc) ==
    IF i > Len(handlers) THEN acc
    ELSE LET ev == SinkHandle(handlers[i], i, rec, failing)
         IN  SinkLoop(handlers, rec, failing, i + 1,
                [events |-> Append(acc.events, ev),
                 errs |-> IF ev.err # NilErr
                          THEN Append(acc.errs, LogError(ev.err, rec, handlers[i]))
                          ELSE acc.errs])

\* the loop of TeeHandler.Handle: every result, nil or not, is appended
RECURSIVE TeeLoop(_, _, _, _, _)
TeeLoop(handlers, rec, failing, i, acc) ==
    IF i > Len(handlers) THEN acc
    ELSE LET ev == SinkHandle(handlers[i], i, rec, failing)
         IN  TeeLoop(handlers, rec, failing, i + 1,
                [events |-> Append(acc.events, ev),
                 errs |-> Append(acc.errs, LogError(ev.err, rec, handlers[i]))])

EmptyLoop == [events |-> <<>>, errs |-> <<>>]

ErrsOf(errs) == [i \in 1..Len(errs) |-> errs[i].Err]

\* what unix.Statfs may do: fail, or report the free space
StatfsResults == {[ok |-> FALSE, avail |-> 0]} \cup {[ok |-> TRUE, avail |-> d] : d \in DiskSizes}

\* statLogFS: (0, err) when Statfs fails, (available bytes, nil) otherwise
statLogFS(fs) ==
    IF ~fs.ok THEN [usage |-> 0, err |-> StatfsErr]
    ELSE [usage |-> fs.avail, err |-> NilErr]

\* a collector that skips the disk-space query when a sink failed
QueriesDiskUnlessFailed(s, sinkErrs) == s.fileEnabled /\ sinkErrs = <<>>

\* if s.logConfig.FileOutput.Enabled: the disk is queried on every call of a
\* collector whose config has file output enabled, whatever the sinks did
QueriesDisk(s, sinkErrs) == s.fileEnabled

\* the error of a failed query put before the sink errors
StatErrsQueryFirst(s, rec, sinkErrs, stat) ==
    IF s.fileEnabled /\ stat.err # NilErr
    THEN <<LogError(stat.err, rec, NoHandler)>> \o sinkErrs
    ELSE sinkErrs

\* errors kept from one call to the next instead of starting empty
StatErrsAccumulating(s, rec, sinkErrs, stat) ==
    IF s.fileEnabled /\ stat.err # NilErr
    THEN Append(s.latestStats.Errors \o sinkErrs, LogError(stat.err, rec, NoHandler))
    ELSE s.latestStats.Errors \o sinkErrs

\* the errors of the call once the disk was queried: the sink errors, and
\* the error of a failed query, without a handler, when file output is enabled
StatErrs(s, rec, sinkErrs, stat) ==
    IF s.fileEnabled /\ stat.err # NilErr
    THEN Append(sinkErrs, LogError(stat.err, rec, NoHandler))
    ELSE sinkErrs

\* a return value that leaves the disk-space query's error out
ReturnedErrorSinksOnly(errs) ==
    Join(ErrsOf(SelectSeq(errs, LAMBDA le : le.Handler # NoHandler)))

\* the error Handle returns: nil without errors, else the join of them all
ReturnedError(errs) ==
    IF Len(errs) = 0 THEN NilErr ELSE Join(ErrsOf(errs))

\* an end of Handle that keeps the first stats ever stored
StoreAndCallbackKeepFirst(s, stats, events) ==
    LET stored == IF s.latestStats = ZeroStats THEN [s EXCEPT !.latestStats = stats]
                  ELSE s
        ev == Append(events, [e |-> "store", stats |-> stats])
    IN  [self |-> stored,
         events |-> IF stored.statsCallback # NoCallback
                    THEN Append(ev, [e |-> "callback", cb |-> stored.statsCallback,
                                     stats |-> stats, latest |-> stored.latestStats])
                    ELSE ev]

\* an end of Handle that calls the callback before it stores the stats
StoreAndCallbackEarly(s, stats, events) ==
    LET called == IF s.statsCallback # NoCallback
                  THEN Append(events, [e |-> "callback", cb |-> s.statsCallback,
                                       stats |-> stats, latest |-> s.latestStats])
                  ELSE events
    IN  [self |-> [s EXCEPT !.latestStats = stats],
         events |-> Append(called, [e |-> "store", stats |-> stats])]

\* the end of Handle: the stats are stored as latest, then the callback, if
\* one is set, is called with them
StoreAndCallback(s, stats, events) ==
    LET stored == [s EXCEPT !.latestStats = stats]
        ev == Append(events, [e |-> "store", stats |-> stats])
    IN  [self |-> stored,
         events |-> IF stored.statsCallback # NoCallback
                    THEN Append(ev, [e |-> "callback", cb |-> stored.statsCallback,
                                     stats |-> stats, latest |-> stored.latestStats])
                    ELSE ev]

\* a health check that takes the timestamp and leaves the error out
HealthCheckTimestampOnly(hc) ==
    IF hc = NilStatus THEN ZeroHealthCheck
    ELSE [Timestamp |-> hc.Timestamp, Err |-> NilErr]

\* the health check of the stats: the status lastHealthCheck points to, the
\* zero status while it is nil
HealthCheckOf(hc) == IF hc = NilStatus THEN ZeroHealthCheck ELSE hc

\* LogStatsHandler.Handle / logDispatchStatHandler.Handle; hc is what
\* lastHealthCheck.Load() gives the call
LogStatsHandlerHandle(s, rec, failing, fs, hc) ==
    LET loop == SinkLoop(s.handlers, rec, failing, 1, EmptyLoop)
        queried == QueriesDisk(s, loop.errs)
        stat == IF queried THEN statLogFS(fs) ELSE [usage |-> 0, err |-> NilErr]
        errs == StatErrs(s, rec, loop.errs, stat)
        stats == [DiskAvail |-> stat.usage, Errors |-> errs,
                  HealthCheck |-> HealthCheckOf(hc)]
        ev1 == IF queried
               THEN Append(loop.events, [e |-> "statfs", err |-> stat.err])
               ELSE loop.events
        end == StoreAndCallback(s, stats, ev1)
        ret == ReturnedError(errs)
    IN  [self |-> end.self, stats |-> stats, ret |-> ret,
         events |-> Append(end.events, [e |-> "return", err |-> ret])]

\* a dispatcher that reports an error only when every sink failed
LogDispatcherHandleAllFailed(d, rec, failing) ==
    LET loop == SinkLoop(d.handlers, rec, failing, 1, EmptyLoop)
        ret == IF Len(loop.errs) = Len(d.handlers) THEN Join(ErrsOf(loop.errs))
               ELSE NilErr
    IN  [self |-> d, stats |-> ZeroStats, ret |-> ret,
         events |-> Append(loop.events, [e |-> "return", err |-> ret])]

\* LogDispatcher.Handle
LogDispatcherHandle(d, rec, failing) ==
    LET loop == SinkLoop(d.handlers, rec, failing, 1, EmptyLoop)
        ret == Join(ErrsOf(loop.errs))
    IN  [self |-> d, stats |-> ZeroStats, ret |-> ret,
         events |-> Append(loop.events, [e |-> "return", err |-> ret])]

\* TeeHandler.Handle
TeeHandlerHandle(h, rec, failing) ==
    LET loop == TeeLoop(h.handlers, rec, failing, 1, EmptyLoop)
        ret == Join(ErrsOf(loop.errs))
    IN  [self |-> h, stats |-> ZeroStats, ret |-> ret,
         events |-> Append(loop.events, [e |-> "return", err |-> ret])]

\* one more operation, within the bound on the length of a run; the
\* operations are called one after the other, by one caller
Step ==
    /\ steps < MaxSteps
    /\ steps' = steps + 1
    /\ UNCHANGED nonCoreVars

IsStats(o) == objs[o].type = "LogStatsHandler"

\* the Statfs outcomes a Handle call can meet: none is drawn when the
\* instance does not query the disk
StatfsFor(h) ==
    IF h.type = "LogStatsHandler" /\ h.fileEnabled THEN StatfsResults
    ELSE {[ok |-> TRUE, avail |-> 0]}

Handle(o, rec, failing, fs) ==
    LET h == objs[o]
        r == CASE h.type = "LogStatsHandler" ->
                      LogStatsHandlerHandle(h, rec, failing, fs, NilStatus)
               [] h.type = "LogDispatcher" -> LogDispatcherHandle(h, rec, failing)
               [] h.type = "TeeHandler" -> TeeHandlerHandle(h, rec, failing)
    IN  /\ Step
        /\ objs' = [objs EXCEPT ![o] = r.self]
        /\ produced' = [produced EXCEPT ![o] =
                            [stats |-> r.stats, prev |-> @.stats, calls |-> @.calls + 1]]
        /\ obs' = [op |-> "Handle", obj |-> o, rec |-> rec, failing |-> failing,
                   statfs |-> fs, events |-> r.events, stats |-> r.stats,
                   ret |-> r.ret]
        /\ UNCHANGED registered

----------------------------------------------------------------------------
(* Enabled, WithAttrs, WithGroup, the stats accessors *)

\* an Enabled that requires every sink to accept the level
RECURSIVE HandlerEnabledAll(_, _, _)
HandlerEnabledAll(handlers, level, i) ==
    IF i > Len(handlers) THEN TRUE
    ELSE IF ~SinkEnabled(handlers[i], level) THEN FALSE
    ELSE HandlerEnabledAll(handlers, level, i + 1)

\* LogStatsHandler.Enabled / LogDispatcher.Enabled / TeeHandler.Enabled: the
\* loop returns true at the first sink that accepts the level
RECURSIVE HandlerEnabled(_, _, _)
HandlerEnabled(handlers, level, i) ==
    IF i > Len(handlers) THEN FALSE
    ELSE IF SinkEnabled(handlers[i], level) THEN TRUE
    ELSE HandlerEnabled(handlers, level, i + 1)

Enabled(o, level) ==
    /\ Step
    /\ obs' = [op |-> "Enabled", obj |-> o, level |-> level,
               result |-> HandlerEnabled(objs[o].handlers, level, 1)]
    /\ UNCHANGED <<objs, registered, produced>>

\* the new handler list of WithAttrs / WithGroup: the operation applied to
\* each sink, the HandlerType kept
ScopedHandlers(handlers, op) ==
    [i \in 1..Len(handlers) |->
        [SinkWith(handlers[i], op) EXCEPT !.kind = handlers[i].kind]]

\* a derived instance that starts without a callback
ScopedWithoutCallback(h, op) ==
    [type |-> h.type, handlers |-> ScopedHandlers(h.handlers, op),
     fileEnabled |-> h.fileEnabled, latestStats |-> ZeroStats,
     statsCallback |-> NoCallback]

\* the instance WithAttrs / WithGroup return: a stats collector keeps the
\* callback and the config and starts with zero latest stats
Scoped(h, op) ==
    [type |-> h.type, handlers |-> ScopedHandlers(h.handlers, op),
     fileEnabled |-> h.fileEnabled, latestStats |-> ZeroStats,
     statsCallback |-> h.statsCallback]

\* a scoping that also applies the operation to the sinks of instance o
WithScopeInPlace(all, o, op) ==
    Append([all EXCEPT ![o].handlers = ScopedHandlers(@, op)], Scoped(all[o], op))

\* the instances after WithAttrs / WithGroup on instance o: a new instance
\* is added, the existing ones are left as they are
WithScope(all, o, op) == Append(all, Scoped(all[o], op))

\* the callback an instance holds according to the registrations made
LastRegistered(regs) == IF regs = <<>> THEN NoCallback ELSE regs[Len(regs)]

Derive(o, name, op) ==
    /\ Step
    /\ Len(objs) < MaxObjs
    /\ objs' = WithScope(objs, o, op)
    /\ registered' = Append(registered,
                         IF LastRegistered(registered[o]) = NoCallback THEN <<>>
                         ELSE <<LastRegistered(registered[o])>>)
    /\ produced' = Append(produced, NoneProduced)
    /\ obs' = [op |-> name, obj |-> o, child |-> Len(objs) + 1, arg |-> op,
               before |-> objs]

WithAttrs(o, a) == Derive(o, "WithAttrs", <<"attrs", a>>)

WithGroup(o, g) == Derive(o, "WithGroup", <<"group", g>>)

\* LogStatsHandler.GetLatestStats
GetLatestStats(o) ==
    /\ Step
    /\ IsStats(o)
    /\ obs' = [op |-> "GetLatestStats", obj |-> o, result |-> objs[o].latestStats]
    /\ UNCHANGED <<objs, registered, produced>>

\* a registration that keeps a callback that is already set
SetCallbackKeepFirst(h, callback) ==
    IF h.statsCallback = NoCallback THEN [h EXCEPT !.statsCallback = callback] ELSE h

\* the callback slot after SetStatsCallbackHandler(callback)
SetCallback(h, callback) == [h EXCEPT !.statsCallback = callback]

\* LogStatsHandler.SetStatsCallbackHandler (ContextAwareLogger.SetErrorCallback)
SetStatsCallbackHandler(o, callback) ==
    /\ Step
    /\ IsStats(o)
    /\ objs' = [objs EXCEPT ![o] = SetCallback(objs[o], callback)]
    /\ registered' = [registered EXCEPT ![o] = Append(@, callback)]
    /\ obs' = [op |-> "SetStatsCallbackHandler", obj |-> o, cb |-> callback]
    /\ UNCHANGED produced

----------------------------------------------------------------------------

Objs == 1..Len(objs)

Next ==
    \/ \E o \in Objs, rec \in Records :
          \E failing \in SUBSET (1..Len(objs[o].handlers)), fs \in StatfsFor(objs[o]) :
             Handle(o, rec, failing, fs)
    \/ \E o \in Objs, level \in Levels : Enabled(o, level)
    \/ \E o \in Objs, a \in ScopeArgs : WithAttrs(o, a)
    \/ \E o \in Objs, g \in ScopeArgs : WithGroup(o, g)
    \/ \E o \in Objs : GetLatestStats(o)
    \/ \E o \in Objs, callback \in Callbacks \cup {NoCallback} :
          SetStatsCallbackHandler(o, callback)

Spec == Init /\ [][Next]_vars

----------------------------------------------------------------------------
(* Reading an observation *)

HandleSeen == obs.op = "Handle"

StatsHandleSeen == HandleSeen /\ objs[obs.obj].type = "LogStatsHandler"

DispatchHandleSeen == HandleSeen /\ objs[obs.obj].type \in {"LogDispatcher", "TeeHandler"}

DeriveSeen == obs.op \in {"WithAttrs", "WithGroup"}

\* the events of one kind of the observed Handle call, in order
EventsOf(kind) == SelectSeq(obs.events, LAMBDA ev : ev.e = kind)

\* the positions of the events of one kind in the observed Handle call
PositionsOf(kind) == {p \in 1..Len(obs.events) : obs.events[p].e = kind}

\* the sinks of the instance the observed operation was called on
SeenHandlers == objs[obs.obj].handlers

\* the entries of a LogStats' Errors that carry a sink handle
Attributed(errors) == SelectSeq(errors, LAMBDA le : le.Handler # NoHandler)

\* the disk-space query of the observed Handle call was made and failed
StatfsFailed == objs[obs.obj].fileEnabled /\ ~obs.statfs.ok

----------------------------------------------------------------------------
(* C1 *)

\* C1: every Handle call of a dispatcher or stats collector drives each of
\* its sinks exactly once, in order, with the record of the call, whichever
\* of the sinks fail
C1_EverySinkDrivenOnce ==
    HandleSeen =>
        LET sunk == EventsOf("sink")
        IN  /\ Len(sunk) = Len(SeenHandlers)
            /\ \A i \in 1..Len(sunk) :
                  /\ sunk[i].idx = i
                  /\ sunk[i].kind = SeenHandlers[i].kind
                  /\ sunk[i].rec = obs.rec

\* a call in which the first sink failed and a later sink was still driven
C1_Witness ==
    /\ StatsHandleSeen
    /\ Len(SeenHandlers) >= 2
    /\ 1 \in obs.failing
    /\ \E p \in PositionsOf("sink") : obs.events[p].idx = Len(SeenHandlers)

----------------------------------------------------------------------------
(* C2 *)

\* the one sink that failed in the observed call, when exactly one did
TheFailing == CHOOSE i \in obs.failing : TRUE

\* every sink but i was driven with the record and wrote it
OthersReceived(i) ==
    \A k \in 1..Len(SeenHandlers) :
        k # i => \E p \in PositionsOf("sink") :
                    /\ obs.events[p].idx = k
                    /\ obs.events[p].rec = obs.rec
                    /\ obs.events[p].err = NilErr

\* C2 as stated: when exactly one sink fails to write the record, the
\* LogStats of the call holds exactly one DispatchError, tagged with the
\* SinkKind of the failing sink, and every other sink receives the record
C2_Original ==
    (StatsHandleSeen /\ Cardinality(obs.failing) = 1) =>
        /\ Len(obs.stats.Errors) = 1
        /\ obs.stats.Errors[1].Handler.kind = SeenHandlers[TheFailing].kind
        /\ OthersReceived(TheFailing)

\* C2 amended: when exactly one sink fails to write the record, exactly one
\* DispatchError of the call's LogStats carries a sink handle, it is the
\* failing sink with its SinkKind, every other sink receives the record,
\* and the only other entry there can be is the unattributed error of a
\* failed disk-space query
C2_OneSinkErrorAttributed ==
    (StatsHandleSeen /\ Cardinality(obs.failing) = 1) =>
        LET errors == obs.stats.Errors
            sinkErrors == Attributed(errors)
        IN  /\ Len(sinkErrors) = 1
            /\ sinkErrors[1].Handler = SeenHandlers[TheFailing]
            /\ sinkErrors[1].Handler.kind = SeenHandlers[TheFailing].kind
            /\ sinkErrors[1].Err = WriteErr(TheFailing)
            /\ OthersReceived(TheFailing)
            /\ Len(errors) = IF StatfsFailed THEN 2 ELSE 1
            /\ StatfsFailed => errors[2] = LogError(StatfsErr, obs.rec, NoHandler)

\* the file sink alone fails, next to a console sink, and the disk-space
\* query fails in the same call
C2_Witness ==
    /\ StatsHandleSeen
    /\ Len(SeenHandlers) >= 2
    /\ Cardinality(obs.failing) = 1
    /\ SeenHandlers[TheFailing].kind = HandlerFile
    /\ StatfsFailed
    /\ Len(obs.stats.Errors) = 2

----------------------------------------------------------------------------
(* C3 *)

\* C3 as stated: the number of DispatchError entries of a call is at most
\* the number of registered sinks and every entry's sink handle is one of
\* the registered sinks
C3_Original ==
    StatsHandleSeen =>
        /\ Len(obs.stats.Errors) <= Len(SeenHandlers)
        /\ \A k \in 1..Len(obs.stats.Errors) :
              \E i \in 1..Len(SeenHandlers) :
                  obs.stats.Errors[k].Handler = SeenHandlers[i]

\* C3 amended: the number of DispatchError entries of a call is between 0
\* and the number of registered sinks plus one; every entry carries one of
\* the registered sinks, except the entry of a failed disk-space query,
\* which carries no sink, comes last and is there at most once, only when
\* file output is enabled
C3_ErrorCountAndHandles ==
    StatsHandleSeen =>
        LET errors == obs.stats.Errors
            n == Len(SeenHandlers)
            unattributed == {k \in 1..Len(errors) : errors[k].Handler = NoHandler}
        IN  /\ Len(errors) <= n + 1
            /\ Len(errors) <= n \/ objs[obs.obj].fileEnabled
            /\ Cardinality(unattributed) <= 1
            /\ unattributed \subseteq {Len(errors)}
            /\ unattributed # {} <=> StatfsFailed
            /\ \A k \in 1..Len(errors) :
                  \/ k \in unattributed /\ errors[k].Err = StatfsErr
                  \/ \E i \in 1..n : errors[k].Handler = SeenHandlers[i]

\* every sink failed and the disk-space query failed: one entry more than
\* there are sinks
C3_Witness ==
    /\ StatsHandleSeen
    /\ Len(SeenHandlers) >= 1
    /\ Len(obs.stats.Errors) = Len(SeenHandlers) + 1
    /\ obs.stats.Errors[Len(obs.stats.Errors)].Handler = NoHandler

----------------------------------------------------------------------------
(* C4 *)

\* the errors the sinks returned in the observed call, in order
SinkErrs == LET sunk == EventsOf("sink") IN [i \in 1..Len(sunk) |-> sunk[i].err]

\* C4 as stated: the error the stats collector's Handle returns is the join
\* of the per-sink errors only, without the disk-space query's error
C4_Original == StatsHandleSeen => obs.ret = Join(SinkErrs)

\* C4 amended: the error the stats collector's Handle returns is the join
\* of the errors of every entry of the call's LogStats.Errors, the
\* disk-space query's error included; it is nil exactly when no sink failed
\* and the disk-space query did not fail
C4_ReturnJoinsAllErrors ==
    StatsHandleSeen =>
        /\ obs.ret = Join(SinkErrs \o (IF StatfsFailed THEN <<StatfsErr>> ELSE <<>>))
        /\ obs.ret = Join(ErrsOf(obs.stats.Errors))
        /\ obs.ret = NilErr <=> (obs.failing = {} /\ ~StatfsFailed)

\* every sink succeeded, the disk-space query failed, and Handle returned
\* an error
C4_Witness ==
    /\ StatsHandleSeen
    /\ Len(SeenHandlers) >= 1
    /\ obs.failing = {}
    /\ StatfsFailed
    /\ obs.ret # NilErr

----------------------------------------------------------------------------
(* C5 *)

\* C5: the fan-out dispatcher's Handle returns a non-nil error exactly when
\* at least one of its sinks returned an error for the record; with no sink
\* at all it returns nil
C5_DispatcherErrorIffSinkFailed ==
    DispatchHandleSeen =>
        /\ obs.ret # NilErr <=> \E i \in 1..Len(SinkErrs) : SinkErrs[i] # NilErr
        /\ obs.ret # NilErr =>
              obs.ret.errs = SelectSeq(SinkErrs, LAMBDA e : e # NilErr)
        /\ Len(SeenHandlers) = 0 => obs.ret = NilErr

\* a dispatcher call in which one sink failed and another succeeded
C5_Witness ==
    /\ HandleSeen
    /\ objs[obs.obj].type = "LogDispatcher"
    /\ obs.failing # {}
    /\ obs.failing # 1..Len(SeenHandlers)
    /\ obs.ret # NilErr

----------------------------------------------------------------------------
(* C6 *)

\* C6: Enabled(level) of a dispatcher or stats collector is true exactly
\* when at least one of its sinks accepts the level; with no sink it is
\* false
C6_EnabledIffSomeSink ==
    obs.op = "Enabled" =>
        /\ obs.result <=> \E i \in 1..Len(SeenHandlers) :
                              SinkEnabled(SeenHandlers[i], obs.level)
        /\ Len(SeenHandlers) = 0 => ~obs.result

\* Enabled answered true although one of the sinks refuses the level
C6_Witness ==
    /\ obs.op = "Enabled"
    /\ obs.result
    /\ \E i \in 1..Len(SeenHandlers) : ~SinkEnabled(SeenHandlers[i], obs.level)

----------------------------------------------------------------------------
(* C7 *)

\* C7: WithAttrs and WithGroup return a new instance whose i-th sink is the
\* operation applied to the i-th sink of the original, with the same
\* SinkKind, in the same order; the instances that existed are unchanged,
\* and a record later logged through the constructed instance carries no
\* attribute or group added to a derived one
C7_ScopingLeavesOriginal ==
    /\ DeriveSeen =>
          LET before == obs.before
              parent == before[obs.obj]
              child == objs[obs.child]
          IN  /\ obs.child = Len(before) + 1
              /\ Len(objs) = Len(before) + 1
              /\ \A k \in 1..Len(before) : objs[k] = before[k]
              /\ child.type = parent.type
              /\ Len(child.handlers) = Len(parent.handlers)
              /\ \A i \in 1..Len(parent.handlers) :
                    /\ child.handlers[i].kind = parent.handlers[i].kind
                    /\ child.handlers[i] = SinkWith(parent.handlers[i], obs.arg)
    /\ (HandleSeen /\ obs.obj = 1) =>
          \A p \in PositionsOf("sink") : obs.events[p].scope = <<>>

\* a record logged through the constructed instance after an instance was
\* derived from it whose sink carries the added attributes or group
C7_Witness ==
    /\ HandleSeen
    /\ obs.obj = 1
    /\ Len(objs) >= 2
    /\ Len(SeenHandlers) >= 1
    /\ \E i \in 1..Len(objs[2].handlers) : objs[2].handlers[i].scope # <<>>

----------------------------------------------------------------------------
(* C8 *)

\* C8: every Handle call of the stats collector builds exactly one LogStats
\* and stores it, and GetLatestStats returns the LogStats of the most recent
\* call on that collector, whatever the earlier calls produced
C8_LatestStatsIsLastCall ==
    /\ StatsHandleSeen =>
          /\ Len(EventsOf("store")) = 1
          /\ EventsOf("store")[1].stats = obs.stats
          /\ objs[obs.obj].latestStats = obs.stats
    /\ obs.op = "GetLatestStats" => obs.result = produced[obs.obj].stats
    /\ \A o \in 1..Len(objs) :
          objs[o].type = "LogStatsHandler" => objs[o].latestStats = produced[o].stats

\* GetLatestStats after two calls that built different LogStats
C8_Witness ==
    /\ obs.op = "GetLatestStats"
    /\ produced[obs.obj].calls = 2
    /\ produced[obs.obj].prev # produced[obs.obj].stats
    /\ produced[obs.obj].prev # ZeroStats
    /\ obs.result = produced[obs.obj].stats

----------------------------------------------------------------------------
(* C9 *)

\* C9: with a callback registered, a Handle call of the stats collector
\* calls it exactly once, after every sink was driven, after the disk was
\* queried and after the LogStats was stored as latest, before Handle
\* returns, with the LogStats that was stored; without a callback none is
\* called
C9_CallbackOnceAfterStore ==
    StatsHandleSeen =>
        LET called == EventsOf("callback")
            reg == LastRegistered(registered[obs.obj])
        IN  IF reg = NoCallback THEN called = <<>>
            ELSE /\ Len(called) = 1
                 /\ called[1].cb = reg
                 /\ called[1].stats = obs.stats
                 /\ called[1].latest = called[1].stats
                 /\ objs[obs.obj].latestStats = called[1].stats
                 /\ Len(EventsOf("sink")) = Len(SeenHandlers)
                 /\ \A p \in PositionsOf("callback") :
                       /\ \A q \in PositionsOf("sink") \cup PositionsOf("statfs")
                                     \cup PositionsOf("store") : q < p
                       /\ \A q \in PositionsOf("return") : p < q
                 /\ PositionsOf("return") = {Len(obs.events)}

\* a call with a callback registered on a collector that has several sinks
\* and held other stats before
C9_Witness ==
    /\ StatsHandleSeen
    /\ LastRegistered(registered[obs.obj]) # NoCallback
    /\ Len(SeenHandlers) >= 2
    /\ Len(EventsOf("callback")) = 1
    /\ produced[obs.obj].prev # obs.stats

----------------------------------------------------------------------------
(* C10 *)

\* C10: registering a callback replaces the one registered before: the
\* collector holds the callback registered last, and a Handle call calls
\* that one, once, and no callback registered earlier
C10_RegistrationReplaces ==
    /\ \A o \in 1..Len(objs) :
          objs[o].type = "LogStatsHandler" =>
              objs[o].statsCallback = LastRegistered(registered[o])
    /\ StatsHandleSeen =>
          LET called == EventsOf("callback")
          IN  /\ Len(called) <= 1
              /\ \A i \in 1..Len(called) :
                    called[i].cb = LastRegistered(registered[obs.obj])

\* f was registered, then g, and the next Handle call called g
C10_Witness ==
    /\ StatsHandleSeen
    /\ registered[obs.obj] = <<"f", "g">>
    /\ Len(EventsOf("callback")) = 1
    /\ EventsOf("callback")[1].cb = "g"

----------------------------------------------------------------------------
(* Concurrent callers of one stats collector                               *)
(*                                                                         *)
(* Handle and GetLatestStats take no lock and use no atomic: the           *)
(* assignment s.latestStats = stats and the return of s.latestStats copy   *)
(* the LogStats struct field by field, and the copies of concurrent callers *)
(* interleave.                                                             *)

\* callers running concurrently on the collector
MaxGoroutines == 2

\* the collectors the concurrent callers share: the ones createLogger builds
\* with file output enabled
SharedCollectors ==
    {NewLogStatsHandler(cfg.file, createLogger(cfg)) : cfg \in {c \in Configs : c.file}}

NotStarted == [pc |-> "idle", op |-> "none", stats |-> ZeroStats, result |-> ZeroStats]

ConcInit ==
    /\ \E o \in SharedCollectors : objs = <<o>>
    /\ registered = << <<>> >>
    /\ produced = <<NoneProduced>>
    /\ obs = NoObs
    /\ steps = 0
    /\ goroutines = [t \in 1..MaxGoroutines |-> NotStarted]
    /\ built = {}
    /\ MonIdle
    /\ SysIdle
    /\ SeqIdle
    /\ BuildIdle

\* Handle up to the assignment of latestStats: the sinks are driven, the disk
\* is queried, the LogStats is built in the caller's local variable
BeginHandle(t, rec, failing, fs) ==
    /\ goroutines[t].pc = "idle"
    /\ LET r == LogStatsHandlerHandle(objs[1], rec, failing, fs, NilStatus)
       IN  /\ goroutines' = [goroutines EXCEPT ![t] =
                   [pc |-> "storeDiskAvail", op |-> "Handle", stats |-> r.stats,
                    result |-> ZeroStats]]
           /\ built' = built \cup {r.stats}
    /\ UNCHANGED <<coreVars, nonConcVars>>

\* s.latestStats = stats, first part of the copy: DiskAvail
StoreDiskAvail(t) ==
    /\ goroutines[t].pc = "storeDiskAvail"
    /\ objs' = [objs EXCEPT ![1].latestStats.DiskAvail = goroutines[t].stats.DiskAvail]
    /\ goroutines' = [goroutines EXCEPT ![t].pc = "storeErrors"]
    /\ UNCHANGED <<registered, produced, obs, steps, built, nonConcVars>>

\* s.latestStats = stats, rest of the copy: Errors and HealthCheck; then the
\* callback is called with the local stats and Handle returns
StoreErrors(t) ==
    /\ goroutines[t].pc = "storeErrors"
    /\ objs' = [objs EXCEPT ![1].latestStats.Errors = goroutines[t].stats.Errors,
                            ![1].latestStats.HealthCheck = goroutines[t].stats.HealthCheck]
    /\ goroutines' = [goroutines EXCEPT ![t].pc = "done"]
    /\ UNCHANGED <<registered, produced, obs, steps, built, nonConcVars>>

\* GetLatestStats is called
BeginGetLatestStats(t) ==
    /\ goroutines[t].pc = "idle"
    /\ goroutines' = [goroutines EXCEPT ![t] =
            [pc |-> "loadDiskAvail", op |-> "GetLatestStats", stats |-> ZeroStats,
             result |-> ZeroStats]]
    /\ UNCHANGED <<coreVars, built, nonConcVars>>

\* return s.latestStats, first part of the copy: DiskAvail
LoadDiskAvail(t) ==
    /\ goroutines[t].pc = "loadDiskAvail"
    /\ goroutines' = [goroutines EXCEPT ![t].pc = "loadErrors",
                         ![t].result.DiskAvail = objs[1].latestStats.DiskAvail]
    /\ UNCHANGED <<coreVars, built, nonConcVars>>

\* return s.latestStats, rest of the copy: Errors and HealthCheck
LoadErrors(t) ==
    /\ goroutines[t].pc = "loadErrors"
    /\ goroutines' = [goroutines EXCEPT ![t].pc = "done",
                         ![t].result.Errors = objs[1].latestStats.Errors,
                         ![t].result.HealthCheck = objs[1].latestStats.HealthCheck]
    /\ UNCHANGED <<coreVars, built, nonConcVars>>

Goroutines == DOMAIN goroutines

ConcNext ==
    \/ \E t \in Goroutines, rec \in Records :
          \E failing \in SUBSET (1..Len(objs[1].handlers)), fs \in StatfsFor(objs[1]) :
             BeginHandle(t, rec, failing, fs)
    \/ \E t \in Goroutines : StoreDiskAvail(t)
    \/ \E t \in Goroutines : StoreErrors(t)
    \/ \E t \in Goroutines : BeginGetLatestStats(t)
    \/ \E t \in Goroutines : LoadDiskAvail(t)
    \/ \E t \in Goroutines : LoadErrors(t)

ConcSpec == ConcInit /\ [][ConcNext]_vars

\* the caller's next step writes latestStats
WritesLatestStats(t) == goroutines[t].pc \in {"storeDiskAvail", "storeErrors"}

\* the caller's next step reads latestStats
ReadsLatestStats(t) == goroutines[t].pc \in {"loadDiskAvail", "loadErrors"}

\* two callers are at an access of latestStats at once, one of them writing
LatestStatsRace ==
    \E t, u \in Goroutines :
        /\ t # u
        /\ WritesLatestStats(t)
        /\ WritesLatestStats(u) \/ ReadsLatestStats(u)

----------------------------------------------------------------------------
(* C11 *)

\* C11: latestStats is protected against concurrent access: no two callers
\* are ever at an unsynchronised write/write or write/read of it at once,
\* and GetLatestStats returns a LogStats that one single Handle call built
\* in full (the zero LogStats as long as none was stored)
C11_LatestStatsProtected ==
    /\ ~LatestStatsRace
    /\ \A t \in Goroutines :
          (goroutines[t].op = "GetLatestStats" /\ goroutines[t].pc = "done") =>
              goroutines[t].result \in built \cup {ZeroStats}

----------------------------------------------------------------------------
(* The health monitor                                                      *)
(*                                                                         *)
(* StartHealthCheckMonitor publishes a first snapshot and starts two       *)
(* goroutines on the monitor's context: logHealthChecks (the liveness      *)
(* reporter) and queryElasticsearch (the backend querier).  A snapshot is  *)
(* a freshly allocated lastHealthCheckStatus whose address is stored in    *)
(* the atomic pointer lastHealthCheck; readers load the pointer and read   *)
(* the struct behind it.  One caller logs through a stats collector next   *)
(* to the monitor.  obs holds what the most recent tick body or log call   *)
(* did.                                                                    *)

\* StartHealthCheckMonitor calls made in one run
MaxStarts == 2

\* the clock stops here: it advances by one at every tick of a loop
MaxNow == 3

QueryErr == [what |-> "query", sink |-> 0]

\* the collector of the logger that logs next to the monitor
MonitoredCollector ==
    NewLogStatsHandler(TRUE, createLogger([console |-> "off", file |-> TRUE,
                                           syslog |-> FALSE]))

MonInit ==
    /\ objs = <<MonitoredCollector>>
    /\ registered = << <<>> >>
    /\ produced = <<NoneProduced>>
    /\ obs = NoObs
    /\ steps = 0
    /\ ConcIdle
    /\ MonIdle
    /\ SysIdle
    /\ SeqIdle
    /\ BuildIdle

\* the timestamp of the snapshot the pointer leads to, the zero time while nil
CurrentTimestamp == IF lastHealthCheck = 0 THEN 0 ELSE statuses[lastHealthCheck].Timestamp

\* a publish that overwrites the struct the pointer already leads to
PublishInPlace(heap, ptr, status) ==
    IF ptr = 0 THEN [statuses |-> Append(heap, status), lastHealthCheck |-> Len(heap) + 1]
    ELSE [statuses |-> [heap EXCEPT ![ptr] = status], lastHealthCheck |-> ptr]

\* lastHealthCheck.Store(&lastHealthCheckStatus{...}): a new struct is
\* allocated and the pointer is replaced by its address
Publish(heap, ptr, status) ==
    [statuses |-> Append(heap, status), lastHealthCheck |-> Len(heap) + 1]

\* the entry of the history for a publish of status: the pair, who
\* published it, and the timestamp of the snapshot it replaced
Published(by, ok, status) ==
    [Timestamp |-> status.Timestamp, Err |-> status.Err, by |-> by, ok |-> ok,
     prev |-> CurrentTimestamp, first |-> lastHealthCheck = 0]

\* a goroutine of the monitor, waiting in its select
Loop(kind) == [kind |-> kind, pc |-> "wait", status |-> 0, seen |-> 0, t |-> 0]

\* the goroutines as they are: one of each state that some goroutine is in
Loops == BagToSet(loops)

\* one goroutine goes from state l to state m
Moved(l, m) == (loops (-) SetToBag({l})) (+) SetToBag({m})

\* StartHealthCheckMonitor: the snapshot is set to {now, nil}; when the
\* Elasticsearch client cannot be built it returns, else it starts the two
\* goroutines
StartHealthCheckMonitor(initOk) ==
    /\ starts < MaxStarts
    /\ starts' = starts + 1
    /\ LET status == [Timestamp |-> now, Err |-> NilErr]
           p == Publish(statuses, lastHealthCheck, status)
       IN  /\ statuses' = p.statuses
           /\ lastHealthCheck' = p.lastHealthCheck
           /\ published' = Append(published, Published("start", initOk, status))
    /\ loops' = IF initOk
                THEN loops (+) SetToBag({Loop("log")}) (+) SetToBag({Loop("query")})
                ELSE loops
    /\ UNCHANGED <<cancelled, now, call, coreVars, nonMonVars>>

\* a select that never looks at ctx.Done()
SelectTickerOnly(done) == {"tick"}

\* the cases the select of a loop can take: the ticker's, and ctx.Done()
\* once the context is cancelled
SelectCases(done) == {"tick"} \cup (IF done THEN {"done"} ELSE {})

\* the records logHealthChecks logs for the tick at t: one, at Info level,
\* with the timestamp of the loaded status
HealthCheckLog(t, status) ==
    <<[level |-> "INFO", msg |-> "Health check log", timestamp |-> t,
       last_received |-> status.Timestamp]>>

\* logHealthChecks, case t := <-ticker.C: the snapshot pointer is loaded
LogTick(l) ==
    /\ l.kind = "log"
    /\ l.pc = "wait"
    /\ "tick" \in SelectCases(cancelled)
    /\ now < MaxNow
    /\ now' = now + 1
    /\ loops' = Moved(l, [l EXCEPT !.pc = "log", !.status = lastHealthCheck,
                                   !.seen = Len(published), !.t = now + 1])
    /\ UNCHANGED <<lastHealthCheck, statuses, published, cancelled, starts, call,
                   coreVars, nonMonVars>>

\* logHealthChecks: the record is logged with the timestamp of the loaded
\* status
LogEmit(l) ==
    /\ l.kind = "log"
    /\ l.pc = "log"
    /\ loops' = Moved(l, Loop("log"))
    /\ obs' = [op |-> "emit", status |-> l.status, seen |-> l.seen, t |-> l.t,
               records |-> HealthCheckLog(l.t, statuses[l.status])]
    /\ UNCHANGED <<lastHealthCheck, statuses, published, cancelled, now, starts, call,
                   objs, registered, produced, steps, nonMonVars>>

\* queryElasticsearch, case <-ticker.C: the backend query is sent
QueryTick(q) ==
    /\ q.kind = "query"
    /\ q.pc = "wait"
    /\ "tick" \in SelectCases(cancelled)
    /\ now < MaxNow
    /\ now' = now + 1
    /\ loops' = Moved(q, [q EXCEPT !.pc = "query", !.t = now + 1])
    /\ UNCHANGED <<lastHealthCheck, statuses, published, cancelled, starts, call,
                   coreVars, nonMonVars>>

\* what the backend query may give: a failure (transport error, cancelled
\* context, error response, undecodable body, no hit, unparsable timestamp)
\* or the timestamp of the latest health check record, taken to be the time
\* it is
FetchResults == {[ok |-> FALSE, ts |-> 0], [ok |-> TRUE, ts |-> now]}

\* fetchLastLogTimestamp: (time.Time{}, err) on every failure, else
\* (parsedTime, nil)
fetchLastLogTimestamp(res) ==
    IF ~res.ok THEN [Timestamp |-> 0, Err |-> QueryErr]
    ELSE [Timestamp |-> res.ts, Err |-> NilErr]

\* a querier that returns when the query failed
AfterQueryReturnOnError(err) == IF err # NilErr THEN "done" ELSE "wait"

\* after the Store: the error, if any, is logged; the loop goes on
AfterQuery(err) == IF err # NilErr THEN "logError" ELSE "wait"

\* queryElasticsearch: the query returns, the snapshot is replaced by
\* {timestamp, err}
QueryReturn(q, res) ==
    /\ q.kind = "query"
    /\ q.pc = "query"
    /\ LET status == fetchLastLogTimestamp(res)
           p == Publish(statuses, lastHealthCheck, status)
       IN  /\ statuses' = p.statuses
           /\ lastHealthCheck' = p.lastHealthCheck
           /\ published' = Append(published, Published("query", res.ok, status))
           /\ loops' = Moved(q, [q EXCEPT !.pc = AfterQuery(status.Err), !.t = 0])
           /\ obs' = [op |-> "query", ok |-> res.ok, status |-> p.lastHealthCheck,
                      pc |-> AfterQuery(status.Err), cancelled |-> cancelled]
    /\ UNCHANGED <<cancelled, now, starts, call, objs, registered, produced, steps,
                   nonMonVars>>

\* queryElasticsearch: log.Error("Failed to fetch last log timestamp")
QueryLogError(q) ==
    /\ q.kind = "query"
    /\ q.pc = "logError"
    /\ loops' = Moved(q, Loop("query"))
    /\ UNCHANGED <<lastHealthCheck, statuses, published, cancelled, now, starts, call,
                   coreVars, nonMonVars>>

\* case <-ctx.Done(): the loop logs that it exits and returns
LoopExit(l) ==
    /\ l.pc = "wait"
    /\ "done" \in SelectCases(cancelled)
    /\ loops' = Moved(l, [l EXCEPT !.pc = "done"])
    /\ UNCHANGED <<lastHealthCheck, statuses, published, cancelled, now, starts, call,
                   coreVars, nonMonVars>>

\* the shutdown signal: globalCancel()
Shutdown ==
    /\ ~cancelled
    /\ cancelled' = TRUE
    /\ UNCHANGED <<lastHealthCheck, statuses, published, loops, now, starts, call,
                   coreVars, nonMonVars>>

\* Handle on the collector: lastHealthCheck.Load(), after the sinks were
\* driven and the disk was queried
CallLoad ==
    /\ call.pc = "idle"
    /\ call' = [pc |-> IF lastHealthCheck = 0 THEN "store" ELSE "copyTimestamp",
                status |-> lastHealthCheck, seen |-> Len(published),
                hc |-> ZeroHealthCheck]
    /\ UNCHANGED <<lastHealthCheck, statuses, published, loops, cancelled, now, starts,
                   coreVars, nonMonVars>>

\* stats.HealthCheck = *heathCheck, first part of the copy: Timestamp
CallCopyTimestamp ==
    /\ call.pc = "copyTimestamp"
    /\ call' = [call EXCEPT !.pc = "copyErr",
                            !.hc.Timestamp = statuses[call.status].Timestamp]
    /\ UNCHANGED <<lastHealthCheck, statuses, published, loops, cancelled, now, starts,
                   coreVars, nonMonVars>>

\* stats.HealthCheck = *heathCheck, rest of the copy: Err
CallCopyErr ==
    /\ call.pc = "copyErr"
    /\ call' = [call EXCEPT !.pc = "store", !.hc.Err = statuses[call.status].Err]
    /\ UNCHANGED <<lastHealthCheck, statuses, published, loops, cancelled, now, starts,
                   coreVars, nonMonVars>>

\* Handle on the collector, as a whole, with the health check the call
\* loaded; what the sinks and the disk query do touches nothing the monitor
\* shares
CallFinish(rec, failing, fs) ==
    /\ call.pc = "store"
    /\ LET hc == IF call.status = 0 THEN NilStatus ELSE call.hc
           r == LogStatsHandlerHandle(objs[1], rec, failing, fs, hc)
       IN  /\ objs' = [objs EXCEPT ![1] = r.self]
           /\ obs' = [op |-> "Handle", obj |-> 1, rec |-> rec, failing |-> failing,
                      statfs |-> fs, events |-> r.events, stats |-> r.stats,
                      ret |-> r.ret, status |-> call.status, seen |-> call.seen]
    /\ call' = NoCall
    /\ UNCHANGED <<lastHealthCheck, statuses, published, loops, cancelled, now, starts,
                   registered, produced, steps, nonMonVars>>

\* the steps of the monitor
MonitorNext ==
    \/ \E initOk \in BOOLEAN : StartHealthCheckMonitor(initOk)
    \/ \E l \in Loops : LogTick(l)
    \/ \E l \in Loops : LogEmit(l)
    \/ \E q \in Loops : QueryTick(q)
    \/ \E q \in Loops, res \in FetchResults : QueryReturn(q, res)
    \/ \E q \in Loops : QueryLogError(q)
    \/ \E l \in Loops : LoopExit(l)
    \/ Shutdown

\* the steps of the log call made next to the monitor
CallNext ==
    \/ CallLoad
    \/ CallCopyTimestamp
    \/ CallCopyErr
    \/ \E rec \in Records, fs \in {f \in StatfsResults : f.ok} : CallFinish(rec, {}, fs)

\* the monitor alone
MonitorSpec == MonInit /\ [][MonitorNext]_vars

\* the steps that publish a snapshot
PublishNext ==
    \/ \E initOk \in BOOLEAN : StartHealthCheckMonitor(initOk)
    \/ \E q \in Loops : QueryTick(q)
    \/ \E q \in Loops, res \in FetchResults : QueryReturn(q, res)
    \/ \E q \in Loops : QueryLogError(q)

SnapshotNext ==
    \/ PublishNext
    \/ CallNext

\* the publishers of the snapshot and the log call that reads it: the
\* liveness reporter and the shutdown, which leave the snapshot alone, take
\* no step
SnapshotSpec == MonInit /\ [][SnapshotNext]_vars

\* the {timestamp, error} pair of an entry of the history
PairOf(entry) == [Timestamp |-> entry.Timestamp, Err |-> entry.Err]

\* the pairs published so far
PublishedPairs == {PairOf(published[i]) : i \in 1..Len(published)}

----------------------------------------------------------------------------
(* C12 *)

\* C12: the HealthCheck of the LogStats a Handle call builds is, timestamp
\* and error both, the snapshot that was published last before the call
\* loaded it, and the zero value when none was ever published; the load
\* waits for nothing: a call can always take it
C12_HealthCheckIsSnapshot ==
    /\ obs.op = "Handle" =>
          /\ obs.stats.HealthCheck =
                IF obs.seen = 0 THEN ZeroHealthCheck ELSE PairOf(published[obs.seen])
          /\ objs[1].latestStats.HealthCheck = obs.stats.HealthCheck
    /\ call.pc = "idle" => ENABLED CallLoad

\* a call whose LogStats carries the error of a failed backend query
C12_Witness ==
    /\ obs.op = "Handle"
    /\ obs.seen > 0
    /\ published[obs.seen].by = "query"
    /\ obs.stats.HealthCheck.Err = QueryErr

----------------------------------------------------------------------------
(* C13 *)

\* C13: a snapshot is published by replacing the whole value: every struct
\* ever published still holds the pair it was published with, and the pair
\* a reader copies out, whatever is published during the copy, is one that
\* a single publish wrote
C13_SnapshotReadWhole ==
    /\ Len(statuses) = Len(published)
    /\ \A i \in 1..Len(statuses) : statuses[i] = PairOf(published[i])
    /\ (call.pc = "store" /\ call.status # 0) => call.hc \in PublishedPairs
    /\ (obs.op = "Handle" /\ obs.status # 0) => obs.stats.HealthCheck \in PublishedPairs

\* a reader that finished its copy of a snapshot holding an error after a
\* newer snapshot was published
C13_Witness ==
    /\ call.pc = "store"
    /\ call.status # 0
    /\ call.status # lastHealthCheck
    /\ call.hc.Err = QueryErr
    /\ statuses[lastHealthCheck].Err = NilErr

----------------------------------------------------------------------------
(* C14 *)

\* the stores the querier made
QueryStores == {i \in 1..Len(published) : published[i].by = "query"}

\* C14: every snapshot the querier publishes is {the timestamp the backend
\* returned, no error} after a successful query and {the timestamp of the
\* snapshot it replaces, the error} after a failed one
C14_FailedQueryKeepsTimestamp ==
    \A i \in QueryStores :
        IF published[i].ok
        THEN published[i].Err = NilErr /\ published[i].Timestamp > 0
        ELSE published[i].Err # NilErr /\ published[i].Timestamp = published[i].prev

----------------------------------------------------------------------------
(* C15 *)

\* the goroutines of one kind that have not returned
Running(kind) == {l \in Loops : l.kind = kind /\ l.pc # "done"}

\* how many goroutines of one kind have not returned
RunningCount(kind) ==
    LET counts == [l \in Running(kind) |-> CopiesIn(l, loops)]
        RECURSIVE Sum(_)
        Sum(S) == IF S = {} THEN 0
                  ELSE LET l == CHOOSE x \in S : TRUE IN counts[l] + Sum(S \ {l})
    IN Sum(Running(kind))

\* C15: however often the monitor is started, at most one liveness loop and
\* at most one querier loop run, and only the first start publishes a
\* snapshot
C15_StartIdempotent ==
    /\ RunningCount("log") <= 1
    /\ RunningCount("query") <= 1
    /\ \A i \in 1..Len(published) : published[i].by = "start" => published[i].first

\* the loops part alone
C15_OneLoopOfEachKind == RunningCount("log") <= 1 /\ RunningCount("query") <= 1

----------------------------------------------------------------------------
(* C17 *)

\* the failed queries so far
FailedQueries == {i \in QueryStores : ~published[i].ok}

\* C17: a failed query ends no goroutine of the monitor: while the context
\* is not cancelled both loops of every start are running and a waiting
\* loop can take its next tick; the error of the failed query is in the
\* snapshot it published, and the querier goes on to log it
C17_FailedQueryKeepsMonitorRunning ==
    /\ ~cancelled =>
          /\ \A l \in Loops : l.pc # "done"
          /\ \A i \in FailedQueries :
                RunningCount("query") >= 1 /\ RunningCount("log") >= 1
          /\ \A l \in Loops : (l.pc = "wait" /\ now < MaxNow) =>
                IF l.kind = "query" THEN ENABLED QueryTick(l) ELSE ENABLED LogTick(l)
    /\ \A i \in FailedQueries : published[i].Err = QueryErr /\ statuses[i].Err = QueryErr
    /\ (obs.op = "query" /\ ~obs.ok) =>
          /\ statuses[obs.status].Err = QueryErr
          /\ obs.pc = "logError"

\* the one querier of a monitor started once is in its next query after a
\* failed one, without a shutdown
C17_Witness ==
    /\ starts = 1
    /\ ~cancelled
    /\ FailedQueries # {}
    /\ \E q \in Loops : q.kind = "query" /\ q.pc = "query"

----------------------------------------------------------------------------
(* C18 *)

\* C18: a tick of the liveness loop emits exactly one record, carrying the
\* timestamp of the snapshot it loaded, at warning level when that snapshot
\* holds an error and at informational level otherwise
C18_LivenessRecordLevel ==
    (obs.op = "emit" /\ obs.seen > 0) =>
        /\ Len(obs.records) = 1
        /\ obs.records[1].last_received = published[obs.seen].Timestamp
        /\ obs.records[1].level =
              IF published[obs.seen].Err # NilErr THEN "WARN" ELSE "INFO"

\* what the loop does do: one informational record with the timestamp
C18_OneInfoRecord ==
    (obs.op = "emit" /\ obs.seen > 0) =>
        /\ Len(obs.records) = 1
        /\ obs.records[1].last_received = published[obs.seen].Timestamp
        /\ obs.records[1].level = "INFO"

----------------------------------------------------------------------------
(* C16 *)

\* a goroutine of the monitor finishes the step it is in
LoopStep ==
    \/ \E l \in Loops : LogEmit(l)
    \/ \E q \in Loops, res \in FetchResults : QueryReturn(q, res)
    \/ \E q \in Loops : QueryLogError(q)

\* a goroutine of the monitor takes the ctx.Done case
LoopExits == \E l \in Loops : LoopExit(l)

\* the monitor with its goroutines scheduled: a goroutine that is logging
\* or has its query answered finishes that step, and a select whose
\* ctx.Done case is ready again and again takes it at some point (Go picks
\* among the ready cases at random)
MonitorLiveSpec ==
    /\ MonInit
    /\ [][MonitorNext]_vars
    /\ WF_vars(LoopStep)
    /\ SF_vars(LoopExits)

\* every goroutine the monitor started has returned
AllExited == \A l \in Loops : l.pc = "done"

\* how many goroutines have returned
ExitedCount == BagCardinality(loops) - RunningCount("log") - RunningCount("query")

\* C16: once the context is cancelled every goroutine of the monitor, in
\* whatever step it was, returns at some point, and a goroutine that has
\* returned is never running again
C16_LoopsExitOnShutdown ==
    /\ cancelled ~> AllExited
    /\ [][ExitedCount' >= ExitedCount]_vars

\* all goroutines have returned after a shutdown, the last backend query
\* having come back when the context was already cancelled
C16_Witness ==
    /\ cancelled
    /\ loops # EmptyBag
    /\ AllExited
    /\ obs.op = "query"
    /\ obs.cancelled

----------------------------------------------------------------------------
(* Syslog forwarder under concurrent callers *)

\* forwarders: the constructed one and those derived from it
MaxForwarders == 2

\* goroutines calling Handle on the forwarders, one call each
MaxHandling == 2

\* the records handed to the forwarders; TRACE is a level below Debug, which
\* the switch of Handle has no case for
SysRecords == [Level : {"INFO", "TRACE"}, Message : {"Test msg"}]

\* a goroutine that has not called Handle
NotHandling == [pc |-> "idle"]

\* the forwarder NewSyslogHandler returns when syslog.Dial succeeded: its
\* delegate has no attributes and no group; buf, mu and writer are the
\* pointers it holds, 1 naming the buffer, the mutex and the connection made
\* by the constructor (the state variables buf, mu and writer)
Dialled == [scope |-> <<>>, buf |-> 1, mu |-> 1, writer |-> 1, parent |-> 0]

\* NewSyslogHandler: one forwarder, an empty buffer, a free mutex
SysInit ==
    /\ objs = <<MonitoredCollector>>
    /\ registered = << <<>> >>
    /\ produced = <<NoneProduced>>
    /\ obs = NoObs
    /\ steps = 0
    /\ ConcIdle
    /\ MonIdle
    /\ SeqIdle
    /\ BuildIdle
    /\ forwarders = <<Dialled>>
    /\ buf = <<>>
    /\ mu = 0
    /\ handling = [t \in 1..MaxHandling |-> NotHandling]
    /\ writer = <<>>

\* what the delegate built by the supplier writes for a record: one line,
\* with the attributes and groups of the forwarder it belongs to
Rendering(h, rec) ==
    <<[level |-> rec.Level, msg |-> rec.Message, scope |-> h.scope]>>

\* a switch that sends everything at info
SeverityInfo(level) == "Info"

\* the writer method the switch of Handle picks for a level, "none" for a
\* level it has no case for
Severity(level) ==
    CASE level = "DEBUG" -> "Debug"
      [] level = "INFO" -> "Info"
      [] level = "WARN" -> "Warning"
      [] level = "ERROR" -> "Err"
      [] OTHER -> "none"

\* a derived forwarder that dials a connection of its own, the n-th
WithOwnConnection(s, h, op, n) ==
    [scope |-> Append(s.scope, op), buf |-> s.buf, mu |-> s.mu, writer |-> n,
     parent |-> h]

\* &SyslogHandler{handler: s.handler.WithAttrs(attrs), buf: s.buf,
\* writer: s.writer, mu: s.mu}: the delegate has the attributes or the group
\* applied, the three pointers are those of s (forwarder h)
With(s, h, op, n) ==
    [scope |-> Append(s.scope, op), buf |-> s.buf, mu |-> s.mu, writer |-> s.writer,
     parent |-> h]

\* WithGroup / WithAttrs: a new forwarder over the derived delegate, with the
\* buffer, the writer and the mutex of the one it is derived from
SyslogHandlerWith(h, kind, a) ==
    /\ Len(forwarders) < MaxForwarders
    /\ forwarders' = Append(forwarders,
            With(forwarders[h], h, <<kind, a>>, Len(forwarders) + 1))
    /\ UNCHANGED <<buf, mu, handling, writer, nonSysVars>>

\* a goroutine calls Handle and comes to s.mu.Lock()
SyslogHandlerHandle(t, h, rec) ==
    /\ handling[t].pc = "idle"
    /\ handling' = [handling EXCEPT ![t] =
            [pc |-> "lock", h |-> h, rec |-> rec, msg |-> <<>>, waited |-> mu # 0]]
    /\ UNCHANGED <<forwarders, buf, mu, writer, nonSysVars>>

\* a mutex that anybody can take at any time
CanLockAlways(holder) == TRUE

\* s.mu.Lock() returns only while nobody holds the mutex
CanLock(holder) == holder = 0

\* s.mu.Lock()
SyslogLock(t) ==
    /\ handling[t].pc = "lock"
    /\ CanLock(mu)
    /\ mu' = t
    /\ handling' = [handling EXCEPT ![t].pc = "render"]
    /\ UNCHANGED <<forwarders, buf, writer, nonSysVars>>

\* s.handler.Handle(ctx, r): the delegate writes its line into the buffer
SyslogRender(t) ==
    /\ handling[t].pc = "render"
    /\ buf' = buf \o Rendering(forwarders[handling[t].h], handling[t].rec)
    /\ handling' = [handling EXCEPT ![t].pc = "string"]
    /\ UNCHANGED <<forwarders, mu, writer, nonSysVars>>

\* msg := s.buf.String()
SyslogString(t) ==
    /\ handling[t].pc = "string"
    /\ handling' = [handling EXCEPT ![t].pc = "reset", ![t].msg = buf]
    /\ UNCHANGED <<forwarders, buf, mu, writer, nonSysVars>>

\* s.buf.Reset()
SyslogReset(t) ==
    /\ handling[t].pc = "reset"
    /\ buf' = <<>>
    /\ handling' = [handling EXCEPT ![t].pc = "send"]
    /\ UNCHANGED <<forwarders, mu, writer, nonSysVars>>

\* the switch on r.Level: the message goes to the writer method of the level
SyslogSend(t) ==
    /\ handling[t].pc = "send"
    /\ LET c == handling[t]
       IN writer' = IF Severity(c.rec.Level) = "none" THEN writer
                    ELSE Append(writer, [method |-> Severity(c.rec.Level), msg |-> c.msg,
                                         by |-> t, h |-> c.h, rec |-> c.rec,
                                         conn |-> forwarders[c.h].writer,
                                         waited |-> c.waited])
    /\ handling' = [handling EXCEPT ![t].pc = "unlock"]
    /\ UNCHANGED <<forwarders, buf, mu, nonSysVars>>

\* the deferred s.mu.Unlock()
SyslogUnlock(t) ==
    /\ handling[t].pc = "unlock"
    /\ mu' = 0
    /\ handling' = [handling EXCEPT ![t].pc = "done"]
    /\ UNCHANGED <<forwarders, buf, writer, nonSysVars>>

Handling == DOMAIN handling

SysNext ==
    \/ \E h \in 1..Len(forwarders), kind \in {"attrs", "group"}, a \in ScopeArgs :
          SyslogHandlerWith(h, kind, a)
    \/ \E t \in Handling, h \in 1..Len(forwarders), rec \in SysRecords :
          SyslogHandlerHandle(t, h, rec)
    \/ \E t \in Handling : SyslogLock(t)
    \/ \E t \in Handling : SyslogRender(t)
    \/ \E t \in Handling : SyslogString(t)
    \/ \E t \in Handling : SyslogReset(t)
    \/ \E t \in Handling : SyslogSend(t)
    \/ \E t \in Handling : SyslogUnlock(t)

SysSpec == SysInit /\ [][SysNext]_vars

\* the goroutine is between Lock and Unlock
InHandle(t) == handling[t].pc \in {"render", "string", "reset", "send", "unlock"}

----------------------------------------------------------------------------
(* C20 *)

----------------------------------------------------------------------------
(* Sequence tagger under concurrent callers *)

\* N: the goroutines logging through one logger, one call each
MaxLogging == 4

\* a goroutine that has not logged
NotLogging == [pc |-> "idle", no |-> 0]

\* a logger with sequence tagging enabled, nothing logged yet
SeqInit ==
    /\ objs = <<MonitoredCollector>>
    /\ registered = << <<>> >>
    /\ produced = <<NoneProduced>>
    /\ obs = NoObs
    /\ steps = 0
    /\ ConcIdle
    /\ MonIdle
    /\ SysIdle
    /\ BuildIdle
    /\ sequenceNo = 0
    /\ logging = [t \in 1..MaxLogging |-> NotLogging]
    /\ emitted = <<>>

\* a tagger that hands out the value the counter had before the increment
SequenceNoBefore(counter) == counter

\* the number a record gets: the value of the counter after the increment,
\* so the first record gets 1
SequenceNoAssigned(counter) == counter + 1

\* the tagger: one atomic increment of the counter, the record gets the
\* number as an additional attribute
SeqTag(t, rec) ==
    /\ logging[t].pc = "idle"
    /\ sequenceNo' = sequenceNo + 1
    /\ logging' = [logging EXCEPT ![t] =
            [pc |-> "dispatch", no |-> SequenceNoAssigned(sequenceNo), rec |-> rec]]
    /\ UNCHANGED <<emitted, nonSeqVars>>

\* the tagged record goes on to the stats collector and reaches the sink
SeqDispatch(t) ==
    /\ logging[t].pc = "dispatch"
    /\ emitted' = Append(emitted, [sequence_no |-> logging[t].no, by |-> t,
                                   Level |-> logging[t].rec.Level,
                                   Message |-> logging[t].rec.Message])
    /\ logging' = [logging EXCEPT ![t].pc = "done"]
    /\ UNCHANGED <<sequenceNo, nonSeqVars>>

Logging == DOMAIN logging

SeqNext ==
    \/ \E t \in Logging, rec \in Records : SeqTag(t, rec)
    \/ \E t \in Logging : SeqDispatch(t)

SeqSpec == SeqInit /\ [][SeqNext]_vars

\* the goroutines whose record has its number
Tagged == {t \in Logging : logging[t].pc \in {"dispatch", "done"}}

\* the sequence numbers of the records that reached the sink
EmittedNumbers == {emitted[i].sequence_no : i \in 1..Len(emitted)}

----------------------------------------------------------------------------
(* C19 *)

\* C19: the numbers given to the records tagged so far are 1..k with k the
\* number of tagged records, no number is on two emitted records, and once
\* all N concurrent calls have returned the emitted records are N and their
\* numbers are exactly 1..N
C19_SequenceNumbersExact ==
    /\ {logging[t].no : t \in Tagged} = 1..Cardinality(Tagged)
    /\ Cardinality(EmittedNumbers) = Len(emitted)
    /\ EmittedNumbers \subseteq 1..Cardinality(Tagged)
    /\ (\A t \in Logging : logging[t].pc = "done") =>
          /\ Len(emitted) = MaxLogging
          /\ EmittedNumbers = 1..MaxLogging

\* all N calls returned, the records having reached the sink in another
\* order than the one they were numbered in
C19_Witness ==
    /\ \A t \in Logging : logging[t].pc = "done"
    /\ emitted[1].sequence_no = MaxLogging
    /\ emitted[MaxLogging].sequence_no = 1

----------------------------------------------------------------------------
(* C21 *)

\* the forwarders derived by WithAttrs / WithGroup
DerivedForwarders == {i \in 1..Len(forwarders) : forwarders[i].parent # 0}

----------------------------------------------------------------------------
(* Syslog forwarder, one caller, every level *)

\* messages handed to syslog by the one caller
MaxSent == 2

\* records at the four levels of slog and at one below them
LevelRecords == [Level : {"DEBUG", "INFO", "WARN", "ERROR", "TRACE"}, Message : {"Test msg"}]

\* NewSyslogHandler, and one goroutine that logs
SysLevelInit ==
    /\ objs = <<MonitoredCollector>>
    /\ registered = << <<>> >>
    /\ produced = <<NoneProduced>>
    /\ obs = NoObs
    /\ steps = 0
    /\ ConcIdle
    /\ MonIdle
    /\ SeqIdle
    /\ BuildIdle
    /\ forwarders = <<Dialled>>
    /\ buf = <<>>
    /\ mu = 0
    /\ handling = <<NotHandling>>
    /\ writer = <<>>

\* Handle has returned; the goroutine may log again
SyslogReturn(t) ==
    /\ handling[t].pc = "done"
    /\ handling' = [handling EXCEPT ![t] = NotHandling]
    /\ UNCHANGED <<forwarders, buf, mu, writer, nonSysVars>>

SysLevelNext ==
    \/ \E h \in 1..Len(forwarders), kind \in {"attrs", "group"}, a \in ScopeArgs :
          SyslogHandlerWith(h, kind, a)
    \/ \E t \in Handling, h \in 1..Len(forwarders), rec \in LevelRecords :
          Len(writer) < MaxSent /\ SyslogHandlerHandle(t, h, rec)
    \/ \E t \in Handling : SyslogLock(t)
    \/ \E t \in Handling : SyslogRender(t)
    \/ \E t \in Handling : SyslogString(t)
    \/ \E t \in Handling : SyslogReset(t)
    \/ \E t \in Handling : SyslogSend(t)
    \/ \E t \in Handling : SyslogUnlock(t)
    \/ \E t \in Handling : SyslogReturn(t)

SysLevelSpec == SysLevelInit /\ [][SysLevelNext]_vars

----------------------------------------------------------------------------
(* C22 *)

\* C22: every message handed to syslog went to the writer method of the
\* level of its record, Debug to Debug, Info to Info, Warn to Warning, Error
\* to Err, and a record at one of these levels that passed the switch was
\* handed over
C22_SeverityMatchesLevel ==
    /\ \A i \in 1..Len(writer) :
          LET level == writer[i].rec.Level
              method == writer[i].method
          IN /\ level \in {"DEBUG", "INFO", "WARN", "ERROR"}
             /\ level = "DEBUG" => method = "Debug"
             /\ level = "INFO" => method = "Info"
             /\ level = "WARN" => method = "Warning"
             /\ level = "ERROR" => method = "Err"
    /\ \A t \in Handling :
          (handling[t].pc = "unlock"
              /\ handling[t].rec.Level \in {"DEBUG", "INFO", "WARN", "ERROR"}) =>
             /\ writer # <<>>
             /\ writer[Len(writer)].rec = handling[t].rec
             /\ writer[Len(writer)].by = t

\* a Warn record went out at warning and then an Error record at error
C22_Witness ==
    /\ Len(writer) = 2
    /\ writer[1].rec.Level = "WARN" /\ writer[1].method = "Warning"
    /\ writer[2].rec.Level = "ERROR" /\ writer[2].method = "Err"

----------------------------------------------------------------------------
(* C25 *)

\* the positions of the failing sinks that write the log file
FailedFileSinks ==
    {i \in obs.failing : objs[obs.obj].handlers[i].kind = HandlerFile}

\* C25: a Handle call of a collector whose config has file output enabled
\* queries the disk exactly once, after the sinks, whether or not the file
\* sink failed, and DiskAvail is what the query reported; a call of a
\* collector with file output disabled queries nothing and DiskAvail is 0
C25_DiskQueriedIffFileEnabled ==
    StatsHandleSeen =>
        IF objs[obs.obj].fileEnabled
        THEN /\ Cardinality(PositionsOf("statfs")) = 1
             /\ \A p \in PositionsOf("sink"), q \in PositionsOf("statfs") : p < q
             /\ obs.stats.DiskAvail = IF obs.statfs.ok THEN obs.statfs.avail ELSE 0
        ELSE /\ PositionsOf("statfs") = {}
             /\ obs.stats.DiskAvail = 0

\* the second call of a collector with file output enabled, its file sink
\* having failed, queried the disk and got the free space
C25_Witness ==
    /\ StatsHandleSeen
    /\ objs[obs.obj].fileEnabled
    /\ produced[obs.obj].calls = 2
    /\ FailedFileSinks # {}
    /\ PositionsOf("statfs") # {}
    /\ obs.stats.DiskAvail = 1

----------------------------------------------------------------------------
(* C26 *)

\* C26: when the disk-space query fails, the Errors of the call are the
\* errors of the failed sinks, each with its sink, followed by exactly one
\* error without a sink, that of the query; DiskAvail is 0; the LogStats is
\* stored as latest and the registered callback is called with it
C26_FailedQueryOneUnattributedError ==
    (StatsHandleSeen /\ StatfsFailed) =>
        LET errs == obs.stats.Errors
            n == Len(errs)
        IN  /\ n = Cardinality(obs.failing) + 1
            /\ errs[n] = LogError(StatfsErr, obs.rec, NoHandler)
            /\ \A i \in 1..(n - 1) :
                  errs[i].Handler # NoHandler /\ errs[i].Err.what = "write"
            /\ obs.stats.DiskAvail = 0
            /\ objs[obs.obj].latestStats = obs.stats
            /\ objs[obs.obj].statsCallback # NoCallback =>
                  /\ Len(EventsOf("callback")) = 1
                  /\ EventsOf("callback")[1].stats = obs.stats

\* the query failed in a call in which a sink failed too, and the callback
\* got the LogStats
C26_Witness ==
    /\ StatsHandleSeen
    /\ StatfsFailed
    /\ obs.failing # {}
    /\ Len(EventsOf("callback")) = 1
    /\ Len(obs.stats.Errors) = 2

----------------------------------------------------------------------------
(* The collector on a full filesystem *)

\* what unix.Statfs may do on a filesystem without free space: fail, or
\* report that nothing is available
FullDiskStatfs == {[ok |-> FALSE, avail |-> 0], [ok |-> TRUE, avail |-> 0]}

\* the positions of the sinks of an instance that write the log file
FileSinks(o) == {i \in 1..Len(objs[o].handlers) : objs[o].handlers[i].kind = HandlerFile}

\* a collector built by createLogger from a config with file output enabled
FullDiskInit ==
    /\ \E cfg \in {c \in Configs : c.file} :
          objs = <<NewLogStatsHandler(cfg.file, createLogger(cfg))>>
    /\ registered = << <<>> >>
    /\ produced = <<NoneProduced>>
    /\ obs = NoObs
    /\ steps = 0
    /\ ConcIdle
    /\ MonIdle
    /\ SysIdle
    /\ SeqIdle
    /\ BuildIdle

\* the operations on the collector while the filesystem of the log file is
\* full: the write of the file sink may fail, the other sinks write
FullDiskNext ==
    \/ \E o \in Objs, rec \in Records :
          \E failing \in SUBSET FileSinks(o), fs \in FullDiskStatfs :
             Handle(o, rec, failing, fs)
    \/ \E o \in Objs, a \in ScopeArgs : WithAttrs(o, a)
    \/ \E o \in Objs, g \in ScopeArgs : WithGroup(o, g)
    \/ \E o \in Objs : GetLatestStats(o)
    \/ \E o \in Objs, callback \in Callbacks \cup {NoCallback} :
          SetStatsCallbackHandler(o, callback)

FullDiskSpec == FullDiskInit /\ [][FullDiskNext]_vars

\* a call on the full filesystem in which the query or the file write failed
FullDiskFailure ==
    /\ StatsHandleSeen
    /\ objs[obs.obj].fileEnabled
    /\ (FailedFileSinks # {} \/ ~obs.statfs.ok)

----------------------------------------------------------------------------
(* C27 *)

\* C27 as stated: when the disk-space query or the file write fails for lack
\* of space, the LogStats holds exactly one error and it is attributed to
\* the file sink
C27_Original ==
    FullDiskFailure =>
        /\ Len(obs.stats.Errors) = 1
        /\ obs.stats.Errors[1].Handler.kind = HandlerFile

\* C27: on a full filesystem a failed file write gives exactly one error
\* attributed to the file sink, and it is the only error when the query
\* answers; a failed query adds one error without a sink after it, and is
\* the only error, attributed to no sink, when the write went through
C27_FullDiskErrors ==
    FullDiskFailure =>
        LET errs == obs.stats.Errors
            sunk == Attributed(errs)
        IN  /\ Len(sunk) = Cardinality(FailedFileSinks)
            /\ Len(sunk) <= 1
            /\ \A i \in 1..Len(sunk) : sunk[i].Handler.kind = HandlerFile
            /\ Len(errs) = Len(sunk) + (IF obs.statfs.ok THEN 0 ELSE 1)
            /\ (FailedFileSinks # {} /\ obs.statfs.ok) =>
                  /\ Len(errs) = 1
                  /\ errs[1].Handler.kind = HandlerFile
            /\ ~obs.statfs.ok => errs[Len(errs)].Handler = NoHandler

\* the write of the file sink failed behind a console sink, the query
\* reported no space, and the callback got the one error
C27_Witness ==
    /\ FullDiskFailure
    /\ FailedFileSinks = {2}
    /\ obs.statfs = [ok |-> TRUE, avail |-> 0]
    /\ Len(obs.stats.Errors) = 1
    /\ obs.stats.Errors[1].Handler.kind = HandlerFile
    /\ Len(EventsOf("callback")) = 1

----------------------------------------------------------------------------
(* Construction of a logger and the writes at its destinations *)

\* log calls made on the constructed logger
MaxLogCalls == 2

\* the config createLogger is given: the console handler asked for, the
\* enable flags of file and syslog output, and the file path
BuildConfigs == [console : {"off", "text", "color"}, file : BOOLEAN, syslog : BOOLEAN,
                 path : {"", "out.log"}]

\* the error of syslog.Dial
DialErr == [what |-> "dial", sink |-> 0]

\* a createLogger that leaves the syslog sink out when the dial fails
createLoggerWithoutSyslog(cfg, dialOk) ==
    IF cfg.file /\ cfg.path = ""
    THEN [pc |-> "panicked", logger |-> NoLogger, err |-> NilErr, dialled |-> 0]
    ELSE [pc |-> "returned",
          logger |-> NewLogStatsHandler(cfg.file,
                        createLogger([cfg EXCEPT !.syslog = cfg.syslog /\ dialOk])),
          err |-> NilErr, dialled |-> IF cfg.syslog THEN 1 ELSE 0]

\* a createLogger that leaves the file sink out when the path is empty
createLoggerSkipFile(cfg, dialOk) ==
    IF cfg.syslog /\ ~dialOk
    THEN [pc |-> "returned", logger |-> NoLogger, err |-> DialErr, dialled |-> 1]
    ELSE [pc |-> "returned",
          logger |-> NewLogStatsHandler(cfg.file /\ cfg.path # "",
                        createLogger([cfg EXCEPT !.file = cfg.file /\ cfg.path # ""])),
          err |-> NilErr, dialled |-> IF cfg.syslog THEN 1 ELSE 0]

\* how createLogger ends: it panics on file output with an empty path,
\* before the syslog part; it returns (nil, err) when NewSyslogHandler
\* fails; else it returns the collector over the handlers, and no error
createLoggerReturn(cfg, dialOk) ==
    IF cfg.file /\ cfg.path = ""
    THEN [pc |-> "panicked", logger |-> NoLogger, err |-> NilErr, dialled |-> 0]
    ELSE IF cfg.syslog /\ ~dialOk
         THEN [pc |-> "returned", logger |-> NoLogger, err |-> DialErr, dialled |-> 1]
         ELSE [pc |-> "returned",
               logger |-> NewLogStatsHandler(cfg.file, createLogger(cfg)),
               err |-> NilErr, dialled |-> IF cfg.syslog THEN 1 ELSE 0]

\* where a sink of createLogger writes: the syslog forwarder to its
\* connection, the file handler to the log file, the console handlers and
\* the fallback text handler to os.Stdout
Destination(s) ==
    CASE s.impl = "syslog" -> "syslog"
      [] s.impl # "syslog" /\ s.kind = HandlerFile -> "file"
      [] OTHER -> "stdout"

BuildInit ==
    /\ objs = <<NewLogStatsHandler(FALSE, <<>>)>>
    /\ registered = << <<>> >>
    /\ produced = <<NoneProduced>>
    /\ obs = NoObs
    /\ steps = 0
    /\ ConcIdle
    /\ MonIdle
    /\ SysIdle
    /\ SeqIdle
    /\ BuildIdle

\* NewLogger / LogInit with the loaded config cfg: both return what
\* createLogger returns, LogInit after assigning the logger to the global
NewLogger(via, cfg, dialOk) ==
    /\ construction = NotConstructed
    /\ LET r == createLoggerReturn(cfg, dialOk)
       IN construction' = [pc |-> r.pc, logger |-> r.logger, err |-> r.err,
                           dialled |-> r.dialled, via |-> via, cfg |-> cfg,
                           dial |-> dialOk, calls |-> 0]
    /\ UNCHANGED <<destinations, errorLoggerMu, lateVars, coreVars, concVars, monVars, sysVars,
                   seqVars>>

\* the sinks of a handler list that write to destination d
WritingTo(handlers, d) == {i \in 1..Len(handlers) : Destination(handlers[i]) = d}

\* a log call on the constructed logger: the collector drives every sink,
\* each writes to its destination or fails
LoggerLog(rec, failing, fs) ==
    /\ construction.pc = "returned"
    /\ construction.logger # NoLogger
    /\ construction.calls < MaxLogCalls
    /\ LET r == LogStatsHandlerHandle(construction.logger, rec, failing, fs, NilStatus)
       IN construction' = [construction EXCEPT !.logger = r.self, !.calls = @ + 1]
    /\ destinations' = [d \in DOMAIN destinations |->
            destinations[d] + Cardinality(WritingTo(construction.logger.handlers, d))]
    /\ UNCHANGED <<errorLoggerMu, lateVars, coreVars, concVars, monVars, sysVars, seqVars>>

BuildNext ==
    \/ \E via \in {"NewLogger", "LogInit"}, cfg \in BuildConfigs, dialOk \in BOOLEAN :
          NewLogger(via, cfg, dialOk)
    \/ \E rec \in Records :
          \E failing \in SUBSET (1..Len(construction.logger.handlers)),
             fs \in StatfsFor(construction.logger) :
                LoggerLog(rec, failing, fs)

BuildSpec == BuildInit /\ [][BuildNext]_vars

\* the construction ended and gave a logger
LoggerReturned == construction.pc = "returned" /\ construction.logger # NoLogger

----------------------------------------------------------------------------
(* C23 *)

\* C23: when the construction comes to the syslog part and the connection
\* cannot be established, it returns the error of the dial and no logger,
\* and nothing is written; a logger that is returned for a config with
\* syslog enabled has the syslog forwarder among its sinks
C23_DialFailureNoLogger ==
    construction.pc # "none" =>
        LET cfg == construction.cfg
        IN  /\ (cfg.syslog /\ ~construction.dial /\ ~(cfg.file /\ cfg.path = "")) =>
                  /\ construction.pc = "returned"
                  /\ construction.err = DialErr
                  /\ construction.logger = NoLogger
                  /\ destinations = NoWrites
            /\ (LoggerReturned /\ cfg.syslog) =>
                  /\ construction.err = NilErr
                  /\ \E i \in 1..Len(construction.logger.handlers) :
                        /\ construction.logger.handlers[i].kind = HandlerSyslog
                        /\ construction.logger.handlers[i].impl = "syslog"

\* LogInit with console, file and syslog enabled returned the error of the
\* failed dial
C23_Witness ==
    /\ construction.pc = "returned"
    /\ construction.via = "LogInit"
    /\ construction.cfg = [console |-> "text", file |-> TRUE, syslog |-> TRUE,
                           path |-> "out.log"]
    /\ ~construction.dial
    /\ construction.err = DialErr
    /\ construction.logger = NoLogger

----------------------------------------------------------------------------
(* C24 *)

\* the config enables the sink that a HandlerType names
EnabledIn(cfg, kind) ==
    CASE kind = HandlerConsole -> cfg.console # "off"
      [] kind = HandlerFile -> cfg.file
      [] kind = HandlerSyslog -> cfg.syslog
      [] OTHER -> FALSE

\* C24: the destination of a sink the config disables has no write,
\* whatever was logged and whatever else is enabled, and no error of a call
\* is attributed to a disabled sink
C24_DisabledSinkSilent ==
    LoggerReturned =>
        LET cfg == construction.cfg
            errs == Attributed(construction.logger.latestStats.Errors)
        IN  /\ cfg.console = "off" => destinations["stdout"] = 0
            /\ ~cfg.file => destinations["file"] = 0
            /\ ~cfg.syslog => destinations["syslog"] = 0
            /\ \A i \in 1..Len(errs) : EnabledIn(cfg, errs[i].Handler.kind)

\* what does hold: with at least one sink enabled the disabled ones are
\* silent
C24_SilentWhenSomeSinkEnabled ==
    LET cfg == construction.cfg
    IN (LoggerReturned /\ (cfg.console # "off" \/ cfg.file \/ cfg.syslog)) =>
          C24_DisabledSinkSilent

----------------------------------------------------------------------------
(* C29 *)

\* C29: construction with file output enabled and an empty file path ends
\* in the panic and in nothing else: no logger, no error value, no dial, no
\* write at any destination
C29_EmptyPathFatal ==
    construction.pc # "none" =>
        /\ (construction.cfg.file /\ construction.cfg.path = "") =>
              /\ construction.pc = "panicked"
              /\ construction.logger = NoLogger
              /\ construction.dialled = 0
              /\ destinations = NoWrites
        /\ construction.pc = "panicked" =>
              (construction.cfg.file /\ construction.cfg.path = "")

\* the construction panicked with console and syslog output enabled too
C29_Witness ==
    /\ construction.pc = "panicked"
    /\ construction.cfg = [console |-> "color", file |-> TRUE, syslog |-> TRUE,
                           path |-> ""]
    /\ construction.dial

----------------------------------------------------------------------------
(* ContextAwareErrorLogger.Log: callers sharing one error logger *)

\* the records the callers log: DEBUG is below the level the slog sinks accept
ErrLogRecords == [Level : {"DEBUG", "INFO"}, Message : {"first", "second"}]

\* a caller that has not called Log yet
NotCalled == [pc |-> "idle", rec |-> [Level |-> "INFO", Message |-> "first"],
              handled |-> FALSE, stats |-> ZeroStats, result |-> ZeroStats]

\* what the calls of the error logger leave alone
errLogRest ==
    <<registered, produced, obs, steps, monVars, sysVars, seqVars, buildVars, lateVars>>

\* the collectors behind the error logger: console and file output
ErrLogCollectors ==
    {NewLogStatsHandler(TRUE, createLogger([console |-> c, file |-> TRUE,
                                            syslog |-> FALSE])) : c \in {"text", "color"}}

ErrLogInit ==
    /\ \E o \in ErrLogCollectors : objs = <<o>>
    /\ registered = << <<>> >>
    /\ produced = <<NoneProduced>>
    /\ obs = NoObs
    /\ steps = 0
    /\ goroutines = [t \in 1..MaxGoroutines |-> NotCalled]
    /\ built = {}
    /\ MonIdle
    /\ SysIdle
    /\ SeqIdle
    /\ BuildIdle

\* a caller enters Log with its record: l.mu.Lock()
ErrLogLock(t, rec) ==
    /\ goroutines[t].pc = "idle"
    /\ errorLoggerMu = 0
    /\ errorLoggerMu' = t
    /\ goroutines' = [goroutines EXCEPT ![t].pc = "log", ![t].rec = rec]
    /\ UNCHANGED <<objs, built, errLogRest>>

\* l.ContextAwareLogger.Log: slog.Logger.Log asks Enabled and calls Handle
\* only for a level some sink accepts
ErrLogLog(t, failing, fs) ==
    /\ goroutines[t].pc = "log"
    /\ LET rec == goroutines[t].rec
           r == LogStatsHandlerHandle(objs[1], rec, failing, fs, NilStatus)
       IN  IF HandlerEnabled(objs[1].handlers, rec.Level, 1)
           THEN /\ objs' = [objs EXCEPT ![1] = r.self]
                /\ goroutines' = [goroutines EXCEPT ![t].pc = "get",
                                     ![t].handled = TRUE, ![t].stats = r.stats]
           ELSE /\ failing = {}
                /\ fs = [ok |-> TRUE, avail |-> 0]
                /\ goroutines' = [goroutines EXCEPT ![t].pc = "get"]
                /\ UNCHANGED objs
    /\ UNCHANGED <<built, errorLoggerMu, errLogRest>>

\* return l.statHandler.GetLatestStats()
ErrLogGetLatestStats(t) ==
    /\ goroutines[t].pc = "get"
    /\ goroutines' = [goroutines EXCEPT ![t].pc = "unlock",
                                        ![t].result = objs[1].latestStats]
    /\ UNCHANGED <<objs, built, errorLoggerMu, errLogRest>>

\* the deferred l.mu.Unlock()
ErrLogUnlock(t) ==
    /\ goroutines[t].pc = "unlock"
    /\ errorLoggerMu = t
    /\ errorLoggerMu' = 0
    /\ goroutines' = [goroutines EXCEPT ![t].pc = "done"]
    /\ UNCHANGED <<objs, built, errLogRest>>

ErrLogNext ==
    \/ \E t \in Goroutines, rec \in ErrLogRecords : ErrLogLock(t, rec)
    \/ \E t \in Goroutines, failing \in SUBSET (1..Len(objs[1].handlers)),
          fs \in StatfsResults \cup {[ok |-> TRUE, avail |-> 0]} :
          ErrLogLog(t, failing, fs)
    \/ \E t \in Goroutines : ErrLogGetLatestStats(t)
    \/ \E t \in Goroutines : ErrLogUnlock(t)

ErrLogSpec == ErrLogInit /\ [][ErrLogNext]_vars

\* the callers whose Log has returned
Returned == {t \in Goroutines : goroutines[t].pc = "done"}

----------------------------------------------------------------------------
(* C28 *)

\* C28: the LogStats a Log call of the error logger returns is the one that
\* call produced: when its record reached Handle it is the LogStats that
\* Handle built, and in every case each error in it carries the caller's own
\* record, never the record of another call
C28_LogReturnsOwnStats ==
    \A t \in Returned :
        /\ goroutines[t].handled => goroutines[t].result = goroutines[t].stats
        /\ \A i \in 1..Len(goroutines[t].result.Errors) :
               goroutines[t].result.Errors[i].Record = goroutines[t].rec

\* a call at a level no sink accepts has returned the errors of another
\* caller's record
C28_Witness ==
    \E t \in Returned :
        /\ ~goroutines[t].handled
        /\ Len(goroutines[t].result.Errors) > 0
        /\ goroutines[t].result.Errors[1].Record # goroutines[t].rec

\* a call whose record reached Handle returns the LogStats built for it
C28_HandledCallReturnsOwnStats ==
    \A t \in Returned :
        goroutines[t].handled => goroutines[t].result = goroutines[t].stats

----------------------------------------------------------------------------
(* ContextAwareLogger.Log: context attributes and explicit attributes *)

\* the key/value pairs a context map can hold
CtxEntries == {"user_id=12345", "request_id=abcde"}

\* the contexts handed to Log: nil, a context without a value under
\* LogAttrsKey, one whose value is not a map[string]string, one holding a map
Contexts ==
    {[nil |-> TRUE, type |-> "none", entries |-> {}],
     [nil |-> FALSE, type |-> "none", entries |-> {}],
     [nil |-> FALSE, type |-> "map[string]any", entries |-> {}]}
    \cup {[nil |-> FALSE, type |-> "map[string]string", entries |-> m] :
             m \in SUBSET CtxEntries}

\* the explicitly passed attributes
ExplicitAttrs ==
    {<<>>, <<"extra_key=extra_value">>, <<"extra_key=extra_value", "user_id=other">>}

\* the orders in which a range statement can visit a map
RangeOrders(m) ==
    {f \in [1..Cardinality(m) -> m] : \A i, j \in DOMAIN f : f[i] = f[j] => i = j}

\* a merge that keeps the context attributes only
FinalAttrsContextOnly(contextAttrs, attrs) == contextAttrs

\* finalAttrs := append(contextAttrs, attrs...)
FinalAttrs(contextAttrs, attrs) == contextAttrs \o attrs

\* extractContextAttributes: nil for a nil context or without a
\* map[string]string under LogAttrsKey, else one attribute per entry in the
\* order the range visits the map
extractContextAttributes(ctx) ==
    IF ctx.nil THEN {<<>>}
    ELSE IF ctx.type # "map[string]string" THEN {<<>>}
    ELSE RangeOrders(ctx.entries)

\* the loggers NewContextAwareLogger builds
CtxInit ==
    /\ \E cfg \in Configs : objs = <<NewLogStatsHandler(cfg.file, createLogger(cfg))>>
    /\ registered = << <<>> >>
    /\ produced = <<NoneProduced>>
    /\ obs = NoObs
    /\ steps = 0
    /\ ConcIdle
    /\ MonIdle
    /\ SysIdle
    /\ SeqIdle
    /\ BuildIdle

\* the disk as the calls below meet it: the query succeeds
CtxStatfs == [ok |-> TRUE, avail |-> 1]

\* ContextAwareLogger.Log: the attributes are merged, slog.Logger.Log hands
\* the record to the handler when the handler accepts the level; Log returns
\* nothing, so the sinks' results are not part of its outcome and the sinks
\* are taken to accept the write
ContextAwareLoggerLog(ctx, level, msg, attrs) ==
    \E contextAttrs \in extractContextAttributes(ctx) :
        LET rec == [Level |-> level, Message |-> msg,
                    Attrs |-> FinalAttrs(contextAttrs, attrs)]
            accepted == HandlerEnabled(objs[1].handlers, level, 1)
            r == LogStatsHandlerHandle(objs[1], rec, {}, CtxStatfs, NilStatus)
        IN  /\ Step
            /\ IF accepted
               THEN /\ objs' = [objs EXCEPT ![1] = r.self]
                    /\ produced' = [produced EXCEPT ![1] =
                           [stats |-> r.stats, prev |-> @.stats, calls |-> @.calls + 1]]
                    /\ obs' = [op |-> "Log", ctx |-> ctx, level |-> level, msg |-> msg,
                               attrs |-> attrs, handled |-> <<rec>>,
                               events |-> r.events, panicked |-> FALSE]
               ELSE /\ obs' = [op |-> "Log", ctx |-> ctx, level |-> level, msg |-> msg,
                               attrs |-> attrs, handled |-> <<>>,
                               events |-> <<>>, panicked |-> FALSE]
                    /\ UNCHANGED <<objs, produced>>
            /\ UNCHANGED registered

CtxNext ==
    \E ctx \in Contexts, level \in {"DEBUG", "INFO", "ERROR"}, attrs \in ExplicitAttrs :
        ContextAwareLoggerLog(ctx, level, "Test message", attrs)

CtxSpec == CtxInit /\ [][CtxNext]_vars

\* the context map a Log call found: empty without one
ContextMap == IF obs.ctx.nil \/ obs.ctx.type # "map[string]string" THEN {} ELSE obs.ctx.entries

\* the record r carries every entry of the context map, in some order,
\* followed by the explicit attributes in the order they were passed
MergedAttrs(r) ==
    LET n == Cardinality(ContextMap)
    IN  /\ Len(r.Attrs) = n + Len(obs.attrs)
        /\ {r.Attrs[i] : i \in 1..n} = ContextMap
        /\ \A i \in 1..Len(obs.attrs) : r.Attrs[n + i] = obs.attrs[i]

\* the sinks were handed exactly the record of the call
SinksGot(r) ==
    \A i \in 1..Len(obs.events) :
        obs.events[i].e = "sink" => obs.events[i].rec = r

----------------------------------------------------------------------------
(* C30 *)

\* C30 as stated: every Log call emits one record at the requested level
\* whose attributes are the context map's entries followed by the explicit
\* attributes, and raises no error
C30_Original ==
    obs.op = "Log" =>
        /\ Len(obs.handled) = 1
        /\ obs.handled[1].Level = obs.level
        /\ MergedAttrs(obs.handled[1])
        /\ ~obs.panicked

\* C30: a Log call at a level some sink accepts emits one record at that
\* level whose attributes are every entry of the context map followed by
\* every explicit attribute (the explicit ones alone for a nil context or a
\* context without the map), and every sink is handed that record; at a level
\* no sink accepts nothing is emitted; no call raises an error
C30_ContextThenExplicitAttrs ==
    obs.op = "Log" =>
        /\ ~obs.panicked
        /\ IF HandlerEnabled(objs[1].handlers, obs.level, 1)
           THEN /\ Len(obs.handled) = 1
                /\ obs.handled[1].Level = obs.level
                /\ obs.handled[1].Message = obs.msg
                /\ MergedAttrs(obs.handled[1])
                /\ ContextMap = {} => obs.handled[1].Attrs = obs.attrs
                /\ SinksGot(obs.handled[1])
           ELSE obs.handled = <<>>

\* an Info call with two context entries and one explicit attribute reached
\* the file sink
C30_Witness ==
    /\ obs.op = "Log"
    /\ obs.level = "INFO"
    /\ obs.ctx.entries = CtxEntries
    /\ obs.attrs = <<"extra_key=extra_value">>
    /\ Len(obs.handled) = 1
    /\ obs.handled[1].Attrs = <<"request_id=abcde", "user_id=12345", "extra_key=extra_value">>
    /\ \E i \in 1..Len(obs.events) :
           obs.events[i].e = "sink" /\ obs.events[i].kind = HandlerFile

----------------------------------------------------------------------------
(* LogStats.Duration: Handle followed against the clock *)

\* the latest reading of the clock
MaxClock == 4

\* the longest time one sink write or one disk query takes
MaxDelay == 2

\* what a timed Handle call leaves alone
timedRest ==
    <<registered, produced, steps, concVars, monVars, sysVars, seqVars, buildVars,
      errorLoggerMu, overriding, polling, written, global>>

DurInit ==
    /\ \E cfg \in Configs : objs = <<NewLogStatsHandler(cfg.file, createLogger(cfg))>>
    /\ registered = << <<>> >>
    /\ produced = <<NoneProduced>>
    /\ obs = NoObs
    /\ steps = 0
    /\ ConcIdle
    /\ MonIdle
    /\ SysIdle
    /\ SeqIdle
    /\ BuildIdle

\* a duration measured from the moment the sinks were done
ElapsedSinceSinks(start, sinksDone, end) == end - sinksDone

\* elapsed := time.Since(start)
Elapsed(start, sinksDone, end) == end - start

\* time passes between two steps of the call
Tick ==
    /\ timed.pc \notin {"idle", "returned"}
    /\ clock < MaxClock
    /\ clock' = clock + 1
    /\ UNCHANGED <<objs, obs, timed, timedRest>>

\* Handle is entered: stats := LogStats{}; start := time.Now()
TimedStart(rec, failing, fs) ==
    /\ timed.pc = "idle"
    /\ timed' = [pc |-> "sinks", rec |-> rec, failing |-> failing, fs |-> fs,
                 start |-> clock, delays |-> <<>>, query |-> 0,
                 firstSinkAt |-> clock, sinksDone |-> clock, lastDone |-> clock]
    /\ UNCHANGED <<objs, obs, clock, timedRest>>

\* one turn of the loop over the sinks: handler.Handle(ctx, r) takes d
TimedSink(d) ==
    /\ timed.pc = "sinks"
    /\ Len(timed.delays) < Len(objs[1].handlers)
    /\ clock + d <= MaxClock
    /\ clock' = clock + d
    /\ timed' = [timed EXCEPT !.delays = Append(@, d),
                              !.firstSinkAt = IF timed.delays = <<>> THEN clock ELSE @,
                              !.sinksDone = clock + d,
                              !.lastDone = clock + d]
    /\ UNCHANGED <<objs, obs, timedRest>>

\* the loop is over: the disk is queried when file output is enabled
TimedSinksDone ==
    /\ timed.pc = "sinks"
    /\ Len(timed.delays) = Len(objs[1].handlers)
    /\ timed' = [timed EXCEPT !.pc = IF objs[1].fileEnabled THEN "statfs" ELSE "measure"]
    /\ UNCHANGED <<objs, obs, clock, timedRest>>

\* usage, err := s.statLogFS() takes q
TimedStatfs(q) ==
    /\ timed.pc = "statfs"
    /\ clock + q <= MaxClock
    /\ clock' = clock + q
    /\ timed' = [timed EXCEPT !.pc = "measure", !.query = q, !.lastDone = clock + q]
    /\ UNCHANGED <<objs, obs, timedRest>>

\* stats.Duration = time.Since(start), then the remainder of Handle: the
\* LogStats is stored and returned
TimedMeasure ==
    /\ timed.pc = "measure"
    /\ LET r == LogStatsHandlerHandle(objs[1], timed.rec, timed.failing, timed.fs,
                                      NilStatus)
           stats == [DiskAvail |-> r.stats.DiskAvail, Errors |-> r.stats.Errors,
                     HealthCheck |-> r.stats.HealthCheck,
                     Duration |-> Elapsed(timed.start, timed.sinksDone, clock)]
       IN  /\ objs' = [objs EXCEPT ![1] = [r.self EXCEPT !.latestStats = stats]]
           /\ obs' = [op |-> "TimedHandle", stats |-> stats, ret |-> r.ret,
                      start |-> timed.start, end |-> clock, delays |-> timed.delays,
                      query |-> timed.query, firstSinkAt |-> timed.firstSinkAt,
                      lastDone |-> timed.lastDone]
    /\ timed' = [pc |-> "returned"]
    /\ UNCHANGED <<clock, timedRest>>

DurNext ==
    \/ Tick
    \/ \E rec \in Records, failing \in SUBSET (1..Len(objs[1].handlers)),
          fs \in StatfsFor(objs[1]) : TimedStart(rec, failing, fs)
    \/ \E d \in 0..MaxDelay : TimedSink(d)
    \/ TimedSinksDone
    \/ \E q \in 0..MaxDelay : TimedStatfs(q)
    \/ TimedMeasure

DurSpec == DurInit /\ [][DurNext]_vars

RECURSIVE SumOf(_)
SumOf(seq) == IF seq = <<>> THEN 0 ELSE Head(seq) + SumOf(Tail(seq))

----------------------------------------------------------------------------
(* C31 *)

\* C31: the Duration of a call's LogStats runs from a start taken before the
\* first sink is invoked to an end taken after the last sink has returned and
\* after the disk query: it is at least the time every single sink took, and
\* at least the time all sinks and the query took together
C31_DurationCoversFanOut ==
    obs.op = "TimedHandle" =>
        /\ obs.start <= obs.firstSinkAt
        /\ obs.end >= obs.lastDone
        /\ obs.stats.Duration = obs.end - obs.start
        /\ \A i \in 1..Len(obs.delays) : obs.stats.Duration >= obs.delays[i]
        /\ obs.stats.Duration >= SumOf(obs.delays) + obs.query
        /\ objs[1].latestStats.Duration = obs.stats.Duration

\* a call whose only sink, the file sink, delayed its write by two units, the
\* disk query taking one more
C31_Witness ==
    /\ obs.op = "TimedHandle"
    /\ Len(objs[1].handlers) = 1
    /\ objs[1].handlers[1].kind = HandlerFile
    /\ obs.delays = <<2>>
    /\ obs.query = 1
    /\ obs.stats.Duration >= 3

----------------------------------------------------------------------------
(* ApplyOverrides *)

\* applications of the same overrides that are followed
MaxApplied == 2

\* values as reflection sees them: a kind, and the value or the fields
StringValue(v) == [kind |-> "string", v |-> v]
BoolValue(v) == [kind |-> "bool", v |-> v]
IntValue(v) == [kind |-> "int", v |-> v]
StructValue(fields) == [kind |-> "struct", fields |-> fields]

\* Config with its nested ConsoleOutputConfig and FileOutputConfig; one field
\* of each kind is kept per nested struct
ConfigValues ==
    {StructValue([LogLevel |-> StringValue(l),
             ConsoleOutput |-> StructValue([Enabled |-> BoolValue(ce), Colors |-> BoolValue(cc)]),
             FileOutput |-> StructValue([Enabled |-> BoolValue(fe), FilePath |-> StringValue(fp),
                                    MaxFileSize |-> IntValue(ms)])]) :
        l \in {"", "INFO", "DEBUG"}, ce \in BOOLEAN, cc \in BOOLEAN, fe \in BOOLEAN,
        fp \in {"", "/custom/path/logfile.log"}, ms \in {0, 100, 200}}

\* reflect.Value.IsZero of a field that is not a struct
IsZero(x) ==
    CASE x.kind = "string" -> x.v = ""
      [] x.kind = "bool" -> x.v = FALSE
      [] x.kind = "int" -> x.v = 0

\* an ApplyOverrides that does not recurse: a nested struct with a non-zero
\* field replaces the config's nested struct
RECURSIVE StructIsZero(_)
StructIsZero(x) ==
    IF x.kind = "struct" THEN \A f \in DOMAIN x.fields : StructIsZero(x.fields[f])
    ELSE IsZero(x)

ApplyOverridesShallow(config, overrides) ==
    StructValue([f \in DOMAIN config.fields |->
               IF f \in DOMAIN overrides.fields /\ ~StructIsZero(overrides.fields[f])
               THEN overrides.fields[f]
               ELSE config.fields[f]])

\* ApplyOverrides: for every field of the overrides, recurse into a struct,
\* else set the config's field of that name when the override is not zero
RECURSIVE ApplyOverrides(_, _)
ApplyOverrides(config, overrides) ==
    StructValue([f \in DOMAIN config.fields |->
               IF f \notin DOMAIN overrides.fields THEN config.fields[f]
               ELSE IF overrides.fields[f].kind = "struct"
               THEN ApplyOverrides(config.fields[f], overrides.fields[f])
               ELSE IF ~IsZero(overrides.fields[f]) THEN overrides.fields[f]
               ELSE config.fields[f]])

\* no handler operation is followed: a collector without sinks stands by
CoreIdle ==
    /\ objs = <<NewLogStatsHandler(FALSE, <<>>)>>
    /\ registered = << <<>> >>
    /\ produced = <<NoneProduced>>
    /\ obs = NoObs
    /\ steps = 0

OverridesInit ==
    /\ CoreIdle
    /\ ConcIdle
    /\ MonIdle
    /\ SysIdle
    /\ SeqIdle
    /\ construction = NotConstructed
    /\ destinations = NoWrites
    /\ errorLoggerMu = 0
    /\ TimeIdle
    /\ LaterIdle
    /\ \E c \in ConfigValues, o \in ConfigValues :
          overriding = [applied |-> 0, config |-> c, overrides |-> o, before |-> c,
                        first |-> c]

\* ApplyOverrides(config, overrides) is called
Apply ==
    /\ overriding.applied < MaxApplied
    /\ LET r == ApplyOverrides(overriding.config, overriding.overrides)
       IN overriding' = [overriding EXCEPT !.applied = @ + 1, !.config = r,
                            !.first = IF overriding.applied = 0 THEN r ELSE @]
    /\ UNCHANGED <<coreVars, concVars, monVars, sysVars, seqVars, buildVars,
                   errorLoggerMu, timeVars, polling, written, global>>

OverridesNext == Apply

OverridesSpec == OverridesInit /\ [][OverridesNext]_vars

\* the fields that are not structs, by the names leading to them
LeafPaths ==
    {<<"LogLevel">>, <<"ConsoleOutput", "Enabled">>, <<"ConsoleOutput", "Colors">>,
     <<"FileOutput", "Enabled">>, <<"FileOutput", "FilePath">>,
     <<"FileOutput", "MaxFileSize">>}

\* the value of the field a path leads to
At(c, path) ==
    IF Len(path) = 1 THEN c.fields[path[1]].v
    ELSE c.fields[path[1]].fields[path[2]].v

\* the zero value of the type of the field a path leads to
ZeroAt(path) ==
    CASE path[Len(path)] \in {"LogLevel", "FilePath"} -> ""
      [] path[Len(path)] \in {"Enabled", "Colors"} -> FALSE
      [] path[Len(path)] = "MaxFileSize" -> 0

----------------------------------------------------------------------------
(* C32 *)

\* C32: after ApplyOverrides every field of the config, nested or not, holds
\* the override's value when that value is not the zero value and the value
\* it had before otherwise; a second application of the same overrides
\* leaves the config as the first one made it
C32_OverridesNonZeroFields ==
    overriding.applied >= 1 =>
        /\ \A p \in LeafPaths :
               At(overriding.first, p) =
                   IF At(overriding.overrides, p) = ZeroAt(p)
                   THEN At(overriding.before, p)
                   ELSE At(overriding.overrides, p)
        /\ overriding.config = overriding.first

\* the test's case applied twice: LogLevel, FilePath and MaxFileSize
\* overridden, the enabled flags and Colors kept
C32_Witness ==
    /\ overriding.applied = 2
    /\ At(overriding.before, <<"LogLevel">>) = "INFO"
    /\ At(overriding.before, <<"FileOutput", "Enabled">>) = TRUE
    /\ At(overriding.before, <<"FileOutput", "MaxFileSize">>) = 100
    /\ At(overriding.overrides, <<"LogLevel">>) = "DEBUG"
    /\ At(overriding.overrides, <<"FileOutput", "Enabled">>) = FALSE
    /\ At(overriding.overrides, <<"FileOutput", "MaxFileSize">>) = 200
    /\ At(overriding.config, <<"LogLevel">>) = "DEBUG"
    /\ At(overriding.config, <<"FileOutput", "Enabled">>) = TRUE
    /\ At(overriding.config, <<"FileOutput", "MaxFileSize">>) = 200

----------------------------------------------------------------------------
(* pollForLogErrors, AddErrHandler, StopErrorHandlers *)

\* errors sent on errChan
MaxErrors == 2

\* handlers registered with AddErrHandler
MaxErrHandlers == 2

\* StopErrorHandlers calls
MaxStops == 2

\* what the error poller and its callers leave alone
pollRest ==
    <<coreVars, concVars, monVars, sysVars, seqVars, buildVars, errorLoggerMu,
      timeVars, overriding, written, global>>

\* LogBase has run: the channels are made, pollForLogErrors waits in its select
PollInit ==
    /\ CoreIdle
    /\ ConcIdle
    /\ MonIdle
    /\ SysIdle
    /\ SeqIdle
    /\ construction = NotConstructed
    /\ destinations = NoWrites
    /\ errorLoggerMu = 0
    /\ TimeIdle
    /\ overriding = NoOverriding
    /\ written = <<>>
    /\ global = NoGlobal
    /\ polling = [pc |-> "select", err |-> 0, afterStop |-> FALSE, ranging |-> 0,
                  next |-> 0, errHandlers |-> 0, sent |-> 0, stops |-> 0,
                  invoked |-> <<>>]

\* errHandlers = append(errHandlers, handler)
AddErrHandler ==
    /\ polling.errHandlers < MaxErrHandlers
    /\ polling' = [polling EXCEPT !.errHandlers = @ + 1]
    /\ UNCHANGED pollRest

\* TeeHandler.Handle with a failed sink sends on the unbuffered errChan; the
\* poller receives it in its select and begins to range over errHandlers
SendLogError ==
    /\ polling.pc = "select"
    /\ polling.sent < MaxErrors
    /\ polling' = [polling EXCEPT !.pc = "handlers", !.sent = @ + 1,
                                  !.err = polling.sent + 1,
                                  !.afterStop = polling.stops > 0,
                                  !.ranging = polling.errHandlers, !.next = 1]
    /\ UNCHANGED pollRest

\* handler(err), one turn of the range loop
InvokeErrHandler ==
    /\ polling.pc = "handlers"
    /\ polling.next <= polling.ranging
    /\ polling' = [polling EXCEPT !.next = @ + 1,
                      !.invoked = Append(@, [err |-> polling.err,
                                             handler |-> polling.next,
                                             afterStop |-> polling.afterStop])]
    /\ UNCHANGED pollRest

\* the range loop is over: back to the select
ErrHandlersDone ==
    /\ polling.pc = "handlers"
    /\ polling.next > polling.ranging
    /\ polling' = [polling EXCEPT !.pc = "select", !.err = 0, !.next = 0,
                                  !.ranging = 0, !.afterStop = FALSE]
    /\ UNCHANGED pollRest

\* where the poller goes on after case <-doneChan: the case has no body, the
\* for loop takes its next turn
AfterDone == "select"

\* StopErrorHandlers: doneChan <- true, received by the poller's select
StopErrorHandlers ==
    /\ polling.pc = "select"
    /\ polling.stops < MaxStops
    /\ polling' = [polling EXCEPT !.pc = AfterDone, !.stops = @ + 1]
    /\ UNCHANGED pollRest

PollNext ==
    \/ AddErrHandler
    \/ SendLogError
    \/ InvokeErrHandler
    \/ ErrHandlersDone
    \/ StopErrorHandlers

PollSpec == PollInit /\ [][PollNext]_vars

----------------------------------------------------------------------------
(* C33 *)

\* C33: once StopErrorHandlers has returned, pollForLogErrors receives no
\* further error and no registered handler is invoked for an error sent after
\* the return
C33_StopEndsPolling ==
    /\ \A i \in 1..Len(polling.invoked) : ~polling.invoked[i].afterStop
    /\ (polling.stops > 0 /\ polling.pc = "handlers") => ~polling.afterStop

\* an error sent after StopErrorHandlers returned has reached a handler
C33_Witness ==
    /\ polling.stops > 0
    /\ \E i \in 1..Len(polling.invoked) : polling.invoked[i].afterStop

----------------------------------------------------------------------------
(* Log calls serialized by the caller: the order of the sink writes *)

\* what the serialized calls leave alone
orderRest ==
    <<registered, steps, concVars, monVars, sysVars, seqVars, buildVars, errorLoggerMu,
      timeVars, overriding, polling, global>>

OrderInit ==
    /\ \E cfg \in Configs : objs = <<NewLogStatsHandler(cfg.file, createLogger(cfg))>>
    /\ registered = << <<>> >>
    /\ produced = <<NoneProduced>>
    /\ obs = NoObs
    /\ steps = 0
    /\ ConcIdle
    /\ MonIdle
    /\ SysIdle
    /\ SeqIdle
    /\ BuildIdle

\* the writes a Handle call made, in the order it made them
SinkWrites(events, n) ==
    LET sinks == SelectSeq(events, LAMBDA ev : ev.e = "sink")
    IN  [k \in 1..Len(sinks) |->
            [call |-> n, idx |-> sinks[k].idx, kind |-> sinks[k].kind,
             failed |-> sinks[k].err # NilErr]]

\* one log call, begun after the call before it has returned: Handle drives
\* the sinks, each write is made before the next sink is invoked
SerializedLog(rec, failing, fs) ==
    /\ produced[1].calls < MaxLogCalls
    /\ LET r == LogStatsHandlerHandle(objs[1], rec, failing, fs, NilStatus)
           n == produced[1].calls + 1
       IN  /\ objs' = [objs EXCEPT ![1] = r.self]
           /\ produced' = [produced EXCEPT ![1] =
                  [stats |-> r.stats, prev |-> @.stats, calls |-> n]]
           /\ obs' = [op |-> "SerializedLog", call |-> n, failing |-> failing,
                      stats |-> r.stats]
           /\ written' = written \o SinkWrites(r.events, n)
    /\ UNCHANGED orderRest

OrderNext ==
    \E rec \in Records, failing \in SUBSET (1..Len(objs[1].handlers)),
       fs \in StatfsFor(objs[1]) : SerializedLog(rec, failing, fs)

OrderSpec == OrderInit /\ [][OrderNext]_vars

\* console before file before syslog
KindRank(kind) ==
    CASE kind = HandlerConsole -> 1 [] kind = HandlerFile -> 2 [] kind = HandlerSyslog -> 3

\* the errors of a LogStats that name a sink
SinkErrors(stats) == SelectSeq(stats.Errors, LAMBDA le : le.Err.what # "statfs")

----------------------------------------------------------------------------
(* C34 *)

\* C34: with the calls serialized, every sink is written for an earlier call
\* before it is written for a later one; within a call every sink is written
\* once, in registration order (console, file, syslog), and LogStats.Errors
\* lists the sink errors in that order
C34_WritesInCallOrder ==
    /\ \A p, q \in 1..Len(written) :
          p < q =>
             /\ written[p].call <= written[q].call
             /\ written[p].call = written[q].call =>
                   /\ written[p].idx < written[q].idx
                   /\ KindRank(written[p].kind) < KindRank(written[q].kind)
    /\ \A n \in 1..produced[1].calls, i \in 1..Len(objs[1].handlers) :
          \E p \in 1..Len(written) : written[p].call = n /\ written[p].idx = i
    /\ obs.op = "SerializedLog" =>
          LET errs == SinkErrors(obs.stats)
              failedWrites == SelectSeq(written,
                                  LAMBDA w : w.call = obs.call /\ w.failed)
          IN  /\ Len(errs) = Len(failedWrites)
              /\ \A k \in 1..Len(errs) :
                     /\ errs[k].Handler = objs[1].handlers[failedWrites[k].idx]
                     /\ errs[k].Err.sink = failedWrites[k].idx

\* two calls on a logger with console, file and syslog output, the file and
\* the syslog write of the second having failed
C34_Witness ==
    /\ Len(objs[1].handlers) = 3
    /\ produced[1].calls = 2
    /\ Len(written) = 6
    /\ obs.op = "SerializedLog"
    /\ obs.failing = {2, 3}
    /\ Len(SinkErrors(obs.stats)) = 2

----------------------------------------------------------------------------
(* SyslogHandler.Handle: what it returns, with a delegate or a send that fails *)

\* records at a level of slog and at FatalLevel, slog.Level(12)
FatalRecords == [Level : {"INFO", "FATAL"}, Message : {"Test msg"}]

\* what a delegate obtained from a HandlerSupplier can do with a record: write
\* its line and return nil, or return an error after having written nothing
\* or a part of the line
RenderOutcomes == {"written", "failed", "failedPartWritten"}

\* the bytes a delegate leaves in the buffer when it fails half way
PartOf(h, rec) == <<[level |-> rec.Level, msg |-> "", scope |-> h.scope]>>

SysReturnInit ==
    /\ SysInit

\* Handle is entered
SuppliedHandle(t, rec) ==
    /\ handling[t].pc = "idle"
    /\ handling' = [handling EXCEPT ![t] =
            [pc |-> "lock", h |-> 1, rec |-> rec, msg |-> <<>>, waited |-> mu # 0,
             rendered |-> FALSE, sent |-> 0, ret |-> "nil"]]
    /\ UNCHANGED <<forwarders, buf, mu, writer, nonSysVars>>

\* if err = s.handler.Handle(ctx, r); err != nil { return err }
SuppliedRender(t, outcome) ==
    /\ handling[t].pc = "render"
    /\ LET c == handling[t]
       IN  /\ buf' = CASE outcome = "written" -> buf \o Rendering(forwarders[c.h], c.rec)
                       [] outcome = "failed" -> buf
                       [] outcome = "failedPartWritten" ->
                              buf \o PartOf(forwarders[c.h], c.rec)
           /\ handling' = [handling EXCEPT
                  ![t].pc = IF outcome = "written" THEN "string" ELSE "unlock",
                  ![t].rendered = outcome = "written",
                  ![t].ret = IF outcome = "written" THEN "nil" ELSE "render error"]
    /\ UNCHANGED <<forwarders, mu, writer, nonSysVars>>

\* the switch on r.Level: err = s.writer.Debug/Info/Warning/Err(msg), which
\* delivers the message or fails; no case, no call, err stays nil
SuppliedSend(t, delivered) ==
    /\ handling[t].pc = "send"
    /\ LET c == handling[t]
           method == Severity(c.rec.Level)
       IN  IF method = "none"
           THEN /\ delivered
                /\ handling' = [handling EXCEPT ![t].pc = "unlock"]
                /\ UNCHANGED writer
           ELSE /\ writer' = IF delivered
                             THEN Append(writer, [method |-> method, msg |-> c.msg,
                                                  by |-> t, h |-> c.h, rec |-> c.rec,
                                                  conn |-> forwarders[c.h].writer,
                                                  waited |-> c.waited])
                             ELSE writer
                /\ handling' = [handling EXCEPT ![t].pc = "unlock", ![t].sent = @ + 1,
                                   ![t].ret = IF delivered THEN "nil" ELSE "send error"]
    /\ UNCHANGED <<forwarders, buf, mu, nonSysVars>>

SysReturnNext ==
    \/ \E t \in Handling, rec \in FatalRecords : SuppliedHandle(t, rec)
    \/ \E t \in Handling : SyslogLock(t)
    \/ \E t \in Handling, outcome \in RenderOutcomes : SuppliedRender(t, outcome)
    \/ \E t \in Handling : SyslogString(t)
    \/ \E t \in Handling : SyslogReset(t)
    \/ \E t \in Handling, delivered \in BOOLEAN : SuppliedSend(t, delivered)
    \/ \E t \in Handling : SyslogUnlock(t)

SysReturnSpec == SysReturnInit /\ [][SysReturnNext]_vars

\* the Handle calls that have returned
HandleReturned == {t \in Handling : handling[t].pc = "done"}

----------------------------------------------------------------------------
(* C35 *)

\* C35: a Handle call whose delegate rendered the record hands exactly one
\* message to the syslog connection, whatever the record's level, and a call
\* that returns nil has handed its record over
C35_EveryRecordSent ==
    \A t \in HandleReturned :
        /\ handling[t].rendered => handling[t].sent = 1
        /\ handling[t].ret = "nil" => handling[t].sent = 1

\* a record at FatalLevel was rendered, nothing was sent, Handle returned nil
C35_Witness ==
    \E t \in HandleReturned :
        /\ handling[t].rec.Level = "FATAL"
        /\ handling[t].rendered
        /\ handling[t].sent = 0
        /\ handling[t].ret = "nil"

\* records at the levels the switch has a case for are handed over once
C35_KnownLevelsSent ==
    \A t \in HandleReturned :
        (handling[t].rendered /\ Severity(handling[t].rec.Level) # "none") =>
            handling[t].sent = 1

----------------------------------------------------------------------------
(* C36 *)

\* C36: the render buffer the forwarders share is empty whenever their lock
\* is free, also after calls whose delegate or whose send failed
C36_BufferEmptyWhenUnlocked ==
    mu = 0 => buf = <<>>

\* the lock is free and the buffer holds what a failed delegate left in it
C36_Witness ==
    /\ mu = 0
    /\ buf # <<>>
    /\ \E t \in HandleReturned : handling[t].ret = "render error"

\* calls whose delegate wrote nothing when it failed leave the buffer empty
C36_EmptyUnlessPartWritten ==
    (mu = 0 /\ buf # <<>>) =>
        \E t \in HandleReturned : handling[t].ret = "render error"

----------------------------------------------------------------------------
(* C37 *)

\* the destination a HandlerType stands for
TaggedDestination(kind) ==
    CASE kind = HandlerConsole -> "stdout"
      [] kind = HandlerFile -> "file"
      [] kind = HandlerSyslog -> "syslog"

\* C37: every handler of a logger createLogger returned carries the
\* HandlerType of the destination it writes to, whatever the configuration
C37_TagMatchesDestination ==
    LoggerReturned =>
        \A i \in 1..Len(construction.logger.handlers) :
            TaggedDestination(construction.logger.handlers[i].kind) =
                Destination(construction.logger.handlers[i])

\* a logger built with every sink disabled has written to standard output
\* through a handler tagged HandlerSyslog
C37_Witness ==
    /\ LoggerReturned
    /\ construction.cfg.console = "off" /\ ~construction.cfg.file
    /\ ~construction.cfg.syslog
    /\ destinations["stdout"] > 0
    /\ construction.logger.handlers[1].kind = HandlerSyslog

\* with at least one sink enabled the tags are those of the destinations
C37_TagMatchesWhenSomeSinkEnabled ==
    LET cfg == construction.cfg
    IN (LoggerReturned /\ (cfg.console # "off" \/ cfg.file \/ cfg.syslog)) =>
          C37_TagMatchesDestination

----------------------------------------------------------------------------
(* LogInit and GetLogger: the package variable log *)

\* LogInit calls
MaxInits == 3

\* what parseParams makes of the parameters: an error for a parameter of
\* another type, an error of LoadConfig, or the loaded config
ParseOutcomes == {"invalid parameter type", "load error", "loaded"}

\* what LogInit and GetLogger leave alone
globalRest ==
    <<coreVars, concVars, monVars, sysVars, seqVars, buildVars, errorLoggerMu,
      timeVars, overriding, polling, written>>

GlobalInit ==
    /\ CoreIdle
    /\ ConcIdle
    /\ MonIdle
    /\ SysIdle
    /\ SeqIdle
    /\ construction = NotConstructed
    /\ destinations = NoWrites
    /\ errorLoggerMu = 0
    /\ TimeIdle
    /\ overriding = NoOverriding
    /\ polling = NotPolling
    /\ written = <<>>
    /\ global = NoGlobal

\* a LogInit that assigns the global only when createLogger gave a logger
AssignedIfBuilt(before, r) == IF r.err # NilErr THEN before ELSE r.logger

\* log, err = createLogger(cfg): the global is assigned what createLogger
\* returned, nil included
Assigned(before, r) == r.logger

\* LogInit(params...)
LogInit(parsed, cfg, health, dialOk) ==
    /\ global.calls < MaxInits
    /\ LET r == createLoggerReturn(cfg, dialOk)
           noGet == [made |-> FALSE, panicked |-> FALSE, logger |-> NoLogger]
       IN  IF parsed # "loaded"
           THEN /\ cfg = CHOOSE c \in BuildConfigs : TRUE
                /\ ~health /\ dialOk
                /\ global' = [global EXCEPT !.last = "error", !.failedOver = global.log,
                                 !.calls = @ + 1, !.monitorsBefore = global.monitors,
                                 !.got = noGet]
           ELSE IF r.pc = "panicked"
           THEN global' = [global EXCEPT !.last = "panic", !.failedOver = global.log,
                              !.calls = @ + 1, !.monitorsBefore = global.monitors,
                              !.got = noGet]
           ELSE IF r.err # NilErr
           THEN global' = [global EXCEPT !.log = Assigned(global.log, r),
                              !.last = "error", !.failedOver = global.log,
                              !.calls = @ + 1, !.monitorsBefore = global.monitors,
                              !.got = noGet]
           ELSE global' = [global EXCEPT !.log = Assigned(global.log, r),
                              !.last = "ok", !.failedOver = NoLogger,
                              !.calls = @ + 1, !.monitorsBefore = global.monitors,
                              !.monitors = IF health THEN @ + 1 ELSE @,
                              !.got = noGet]
    /\ UNCHANGED globalRest

\* GetLogger: with log == nil it calls LogInit("", nil), whose nil parameter
\* parseParams rejects, and panics; else it returns log
GetLogger ==
    /\ ~global.got.made
    /\ global' = [global EXCEPT !.got =
           IF global.log = NoLogger
           THEN [made |-> TRUE, panicked |-> TRUE, logger |-> NoLogger]
           ELSE [made |-> TRUE, panicked |-> FALSE, logger |-> global.log]]
    /\ UNCHANGED globalRest

GlobalNext ==
    \/ \E parsed \in ParseOutcomes, cfg \in BuildConfigs, health \in BOOLEAN,
          dialOk \in BOOLEAN : LogInit(parsed, cfg, health, dialOk)
    \/ GetLogger

GlobalSpec == GlobalInit /\ [][GlobalNext]_vars

----------------------------------------------------------------------------
(* C38 *)

\* C38: a LogInit that returns an error leaves the global logger as it was:
\* after an earlier successful LogInit, GetLogger still returns the logger of
\* that LogInit, and the failed call has not started the health monitor
C38_FailedInitKeepsLogger ==
    (global.last = "error" /\ global.failedOver # NoLogger) =>
        /\ global.log = global.failedOver
        /\ global.monitors = global.monitorsBefore
        /\ global.got.made =>
              (~global.got.panicked /\ global.got.logger = global.failedOver)

\* after a successful LogInit one refused the syslog connection, and GetLogger
\* panicked instead of returning the logger of the first
C38_Witness ==
    /\ global.last = "error"
    /\ global.failedOver # NoLogger
    /\ global.log = NoLogger
    /\ global.got.made /\ global.got.panicked

\* a LogInit that fails before createLogger is called leaves the global as
\* it was, and no failed LogInit starts the monitor
C38_FailedInitStartsNoMonitor ==
    global.last \in {"error", "panic"} =>
        /\ global.monitors = global.monitorsBefore
        /\ global.log \in {global.failedOver, NoLogger}

----------------------------------------------------------------------------
(* C39 *)

\* C39: once the monitor's context is cancelled the querier publishes
\* nothing: no query returns into a Store after the shutdown signal, so the
\* snapshot stays the result of the last query completed before it
C39_NoPublishAfterShutdown ==
    obs.op = "query" => ~obs.cancelled

\* after the shutdown signal the querier has replaced the snapshot by a
\* failed query's zero timestamp and error
C39_Witness ==
    /\ cancelled
    /\ obs.op = "query"
    /\ obs.cancelled
    /\ ~obs.ok
    /\ statuses[lastHealthCheck].Timestamp = 0
    /\ statuses[lastHealthCheck].Err = QueryErr
    /\ \E i \in 1..Len(published) : published[i].by = "query" /\ published[i].ok

----------------------------------------------------------------------------
(* C40 *)

\* C40: a collector derived by WithAttrs / WithGroup starts with the callback
\* its parent held at that moment and with an empty latest slot of its own; a
\* Handle call on a collector stores its LogStats in that collector's slot
\* and leaves the slot of every other collector, its parent included, as it
\* was, and calls the callback that collector holds; a callback registered on
\* one collector is held by no other, so one registered on the parent after
\* the derivation is not called for records logged through the derived one
C40_DerivedCollectorIndependent ==
    /\ (DeriveSeen /\ objs[obs.child].type = "LogStatsHandler") =>
          /\ objs[obs.child].statsCallback = obs.before[obs.obj].statsCallback
          /\ objs[obs.child].latestStats = ZeroStats
          /\ objs[obs.obj].latestStats = obs.before[obs.obj].latestStats
    /\ StatsHandleSeen =>
          /\ objs[obs.obj].latestStats = obs.stats
          /\ \A p \in 1..Len(objs) :
                p # obs.obj => objs[p].latestStats = produced[p].stats
          /\ \A i \in 1..Len(EventsOf("callback")) :
                EventsOf("callback")[i].cb = objs[obs.obj].statsCallback
          /\ objs[obs.obj].statsCallback # NoCallback => Len(EventsOf("callback")) = 1
    /\ obs.op = "SetStatsCallbackHandler" =>
          \A p \in 1..Len(objs) :
              (p # obs.obj /\ objs[p].type = "LogStatsHandler") =>
                  objs[p].statsCallback = LastRegistered(registered[p])
    /\ \A p \in 2..Len(objs) :
          (objs[p].type = "LogStatsHandler" /\ registered[p] # <<>>) =>
              objs[p].statsCallback = LastRegistered(registered[p])

\* a record logged through a derived collector called the callback f its
\* parent held at the derivation, and the parent's own slot is still empty
C40_Witness ==
    /\ StatsHandleSeen
    /\ obs.obj = 2
    /\ registered[1] = <<"f">>
    /\ registered[2] = <<"f">>
    /\ Len(EventsOf("callback")) = 1
    /\ EventsOf("callback")[1].cb = "f"
    /\ objs[2].latestStats = obs.stats
    /\ objs[1].latestStats = ZeroStats
    /\ produced[1].calls = 0

\* a record logged through a derived collector after g was registered on its
\* parent: g was not called
C40_LaterCallbackNotCalled ==
    /\ StatsHandleSeen
    /\ obs.obj = 2
    /\ registered[1] = <<"g">>
    /\ registered[2] = <<>>
    /\ EventsOf("callback") = <<>>

====
